---- MODULE Spec2Model ----
(***************************************************************************)
(* Pulse (singlestore-pulse): the facade constructor Pulse.__init__, the   *)
(* content-tracing toggle and the pulse_tool / pulse_agent decorators of   *)
(* src/pulse_otel/main.py, with the helpers of src/pulse_otel/util.py and  *)
(* the tables of src/pulse_otel/consts.py.                                 *)
(*                                                                         *)
(* Python values: a str is a sequence of one-character strings, so that    *)
(* split, replace, lower and substring tests are computed and not assumed; *)
(* None is the one-element sequence <<"None">>, which is no str; a dict is *)
(* a sequence of <<key, value>> pairs in insertion order; an object        *)
(* reference is its index in the heap, 0 standing for None.                *)
(***************************************************************************)
EXTENDS Integers, Sequences, FiniteSets, TLC

None == <<"None">>

\* ------------------------------------------------------------------------
\* src/pulse_otel/consts.py
\* ------------------------------------------------------------------------
\* "http://otel-collector-{PROJECTID_PLACEHOLDER}.observability.svc.cluster.local:4317"
OTEL_COLLECTOR_ENDPOINT ==
  <<"h","t","t","p",":","/","/","o","t","e","l","-","c","o","l","l","e","c","t","o","r","-","{","P","R","O","J","E","C","T","I","D","_","P","L","A","C","E","H","O","L","D","E","R","}",".","o","b","s","e","r","v","a","b","i","l","i","t","y",".","s","v","c",".","c","l","u","s","t","e","r",".","l","o","c","a","l",":","4","3","1","7">>
\* "otel-collector-pulse-internal-{NOVA_CELL_PLACEHOLDER}.observability.svc.cluster.local:4317"
PULSE_INTERNAL_COLLECTOR_ENDPOINT ==
  <<"o","t","e","l","-","c","o","l","l","e","c","t","o","r","-","p","u","l","s","e","-","i","n","t","e","r","n","a","l","-","{","N","O","V","A","_","C","E","L","L","_","P","L","A","C","E","H","O","L","D","E","R","}",".","o","b","s","e","r","v","a","b","i","l","i","t","y",".","s","v","c",".","c","l","u","s","t","e","r",".","l","o","c","a","l",":","4","3","1","7">>
\* "singlestore-session-id"
HEADER_INCOMING_SESSION_ID ==
  <<"s","i","n","g","l","e","s","t","o","r","e","-","s","e","s","s","i","o","n","-","i","d">>
\* "singlestore.nova.app.type"
APP_TYPE ==
  <<"s","i","n","g","l","e","s","t","o","r","e",".","n","o","v","a",".","a","p","p",".","t","y","p","e">>
\* "singlestore.nova.app.id"
APP_ID ==
  <<"s","i","n","g","l","e","s","t","o","r","e",".","n","o","v","a",".","a","p","p",".","i","d">>
\* "singlestore.nova.app.name"
APP_NAME ==
  <<"s","i","n","g","l","e","s","t","o","r","e",".","n","o","v","a",".","a","p","p",".","n","a","m","e">>
\* "session.id"
SESSION_ID ==
  <<"s","e","s","s","i","o","n",".","i","d">>
\* "singlestore.organization"
ORGANIZATION ==
  <<"s","i","n","g","l","e","s","t","o","r","e",".","o","r","g","a","n","i","z","a","t","i","o","n">>
\* "singlestore.project"
PROJECT ==
  <<"s","i","n","g","l","e","s","t","o","r","e",".","p","r","o","j","e","c","t">>
\* "singlestore.hostname"
HOSTNAME ==
  <<"s","i","n","g","l","e","s","t","o","r","e",".","h","o","s","t","n","a","m","e">>
\* "singlestore.is.agent"
IS_AGENT ==
  <<"s","i","n","g","l","e","s","t","o","r","e",".","i","s",".","a","g","e","n","t">>
\* "singlestore.workload.type"
WORKLOAD_TYPE ==
  <<"s","i","n","g","l","e","s","t","o","r","e",".","w","o","r","k","l","o","a","d",".","t","y","p","e">>
\* "singlestore.nova.app.base.path"
APP_BASE_PATH ==
  <<"s","i","n","g","l","e","s","t","o","r","e",".","n","o","v","a",".","a","p","p",".","b","a","s","e",".","p","a","t","h">>
\* "singlestore.nova.app.base.url"
APP_BASE_URL ==
  <<"s","i","n","g","l","e","s","t","o","r","e",".","n","o","v","a",".","a","p","p",".","b","a","s","e",".","u","r","l">>
\* "LIVE_LOGS_FILE_PATH"
LIVE_LOGS_FILE_PATH ==
  <<"L","I","V","E","_","L","O","G","S","_","F","I","L","E","_","P","A","T","H">>
\* "singlestore.notebooks.server.id"
SERVER_ID ==
  <<"s","i","n","g","l","e","s","t","o","r","e",".","n","o","t","e","b","o","o","k","s",".","s","e","r","v","e","r",".","i","d">>
\* Names of the environment variables read by the table below.
\* "SINGLESTOREDB_ORGANIZATION"
ENV_SINGLESTOREDB_ORGANIZATION ==
  <<"S","I","N","G","L","E","S","T","O","R","E","D","B","_","O","R","G","A","N","I","Z","A","T","I","O","N">>
\* "SINGLESTOREDB_PROJECT"
ENV_SINGLESTOREDB_PROJECT ==
  <<"S","I","N","G","L","E","S","T","O","R","E","D","B","_","P","R","O","J","E","C","T">>
\* "HTTP_NOTEBOOKSSERVERID"
ENV_HTTP_NOTEBOOKSSERVERID ==
  <<"H","T","T","P","_","N","O","T","E","B","O","O","K","S","S","E","R","V","E","R","I","D">>
\* "HOSTNAME"
ENV_HOSTNAME ==
  <<"H","O","S","T","N","A","M","E">>
\* "SINGLESTOREDB_WORKLOAD_TYPE"
ENV_SINGLESTOREDB_WORKLOAD_TYPE ==
  <<"S","I","N","G","L","E","S","T","O","R","E","D","B","_","W","O","R","K","L","O","A","D","_","T","Y","P","E">>
\* "SINGLESTOREDB_APP_BASE_PATH"
ENV_SINGLESTOREDB_APP_BASE_PATH ==
  <<"S","I","N","G","L","E","S","T","O","R","E","D","B","_","A","P","P","_","B","A","S","E","_","P","A","T","H">>
\* "SINGLESTOREDB_APP_BASE_URL"
ENV_SINGLESTOREDB_APP_BASE_URL ==
  <<"S","I","N","G","L","E","S","T","O","R","E","D","B","_","A","P","P","_","B","A","S","E","_","U","R","L">>
\* "SINGLESTOREDB_APP_TYPE"
ENV_SINGLESTOREDB_APP_TYPE ==
  <<"S","I","N","G","L","E","S","T","O","R","E","D","B","_","A","P","P","_","T","Y","P","E">>
\* "SINGLESTOREDB_APP_ID"
ENV_SINGLESTOREDB_APP_ID ==
  <<"S","I","N","G","L","E","S","T","O","R","E","D","B","_","A","P","P","_","I","D">>
\* "SINGLESTOREDB_APP_NAME"
ENV_SINGLESTOREDB_APP_NAME ==
  <<"S","I","N","G","L","E","S","T","O","R","E","D","B","_","A","P","P","_","N","A","M","E">>
\* "SINGLESTOREDB_IS_AGENT"
ENV_SINGLESTOREDB_IS_AGENT ==
  <<"S","I","N","G","L","E","S","T","O","R","E","D","B","_","I","S","_","A","G","E","N","T">>
\* (variable, default) pairs in the dict's insertion order.
DEFAULT_ENV_VARIABLES ==
  << <<ENV_SINGLESTOREDB_ORGANIZATION, <<>>>>,
     <<ENV_SINGLESTOREDB_PROJECT, <<>>>>,
     <<ENV_HTTP_NOTEBOOKSSERVERID, <<>>>>,
     <<ENV_HOSTNAME, <<>>>>,
     <<ENV_SINGLESTOREDB_WORKLOAD_TYPE, <<"N","o","t","e","b","o","o","k","C","o","d","e","S","e","r","v","i","c","e">>>>,
     <<ENV_SINGLESTOREDB_APP_BASE_PATH, <<>>>>,
     <<ENV_SINGLESTOREDB_APP_BASE_URL, <<>>>>,
     <<ENV_SINGLESTOREDB_APP_TYPE, <<"A","G","E","N","T">>>>,
     <<ENV_SINGLESTOREDB_APP_ID, <<"1","2","3","4","5","6","7","8","9">>>>,
     <<ENV_SINGLESTOREDB_APP_NAME, <<"M","Y","_","A","P","P","_","N","A","M","E">>>>,
     <<ENV_SINGLESTOREDB_IS_AGENT, <<"t","r","u","e">>>> >>
\* (match, replacement) pairs in the dict's insertion order.
ENV_VARIABLES_MAPPING ==
  << <<ENV_SINGLESTOREDB_APP_ID, APP_ID>>,
     <<ENV_SINGLESTOREDB_APP_NAME, APP_NAME>>,
     <<ENV_SINGLESTOREDB_APP_TYPE, APP_TYPE>>,
     <<ENV_SINGLESTOREDB_ORGANIZATION, ORGANIZATION>>,
     <<ENV_SINGLESTOREDB_PROJECT, PROJECT>>,
     <<ENV_HTTP_NOTEBOOKSSERVERID, SERVER_ID>>,
     <<ENV_SINGLESTOREDB_WORKLOAD_TYPE, WORKLOAD_TYPE>>,
     <<ENV_SINGLESTOREDB_APP_BASE_PATH, APP_BASE_PATH>>,
     <<ENV_SINGLESTOREDB_APP_BASE_URL, APP_BASE_URL>>,
     <<ENV_SINGLESTOREDB_IS_AGENT, IS_AGENT>>,
     <<ENV_HOSTNAME, HOSTNAME>> >>

\* Other environment variables the program reads or writes.
\* "HTTP_FORWARDEDHOST"
ENV_HTTP_FORWARDEDHOST ==
  <<"H","T","T","P","_","F","O","R","W","A","R","D","E","D","H","O","S","T">>
\* "TRACELOOP_TRACE_CONTENT"
ENV_TRACELOOP_TRACE_CONTENT ==
  <<"T","R","A","C","E","L","O","O","P","_","T","R","A","C","E","_","C","O","N","T","E","N","T">>
\* "TRACELOOP_CONTENT_TRACING"
ENV_TRACELOOP_CONTENT_TRACING ==
  <<"T","R","A","C","E","L","O","O","P","_","C","O","N","T","E","N","T","_","T","R","A","C","I","N","G">>
\* "true" and "false", the values written to TRACELOOP_TRACE_CONTENT
STR_true ==
  <<"t","r","u","e">>
STR_false ==
  <<"f","a","l","s","e">>

\* ------------------------------------------------------------------------
\* Python built-ins on str and dict
\* ------------------------------------------------------------------------
UPPERCASE ==
  <<"A","B","C","D","E","F","G","H","I","J","K","L","M","N","O","P","Q","R","S","T","U","V","W","X","Y","Z">>
LOWERCASE ==
  <<"a","b","c","d","e","f","g","h","i","j","k","l","m","n","o","p","q","r","s","t","u","v","w","x","y","z">>

\* str.lower()
str_lower(s) ==
  [i \in 1..Len(s) |->
     IF \E j \in 1..Len(UPPERCASE) : UPPERCASE[j] = s[i]
       THEN LOWERCASE[CHOOSE j \in 1..Len(UPPERCASE) : UPPERCASE[j] = s[i]]
       ELSE s[i]]

\* str.find(sub): the first index (from 1) where sub occurs in s, 0 if none
str_find(s, sub) ==
  LET hits == {i \in 1..(Len(s) - Len(sub) + 1) : SubSeq(s, i, i + Len(sub) - 1) = sub}
  IN  IF hits = {} THEN 0 ELSE CHOOSE i \in hits : \A j \in hits : i <= j

\* sub in s
str_contains(s, sub) == str_find(s, sub) # 0

\* str.replace(old, new), old not empty: every occurrence, left to right
RECURSIVE str_replace(_, _, _)
str_replace(s, old, new) ==
  LET i == str_find(s, old)
  IN  IF i = 0 THEN s
      ELSE SubSeq(s, 1, i - 1) \o new
             \o str_replace(SubSeq(s, i + Len(old), Len(s)), old, new)

\* str.split(sep), sep not empty
RECURSIVE str_split(_, _)
str_split(s, sep) ==
  LET i == str_find(s, sep)
  IN  IF i = 0 THEN <<s>>
      ELSE <<SubSeq(s, 1, i - 1)>> \o str_split(SubSeq(s, i + Len(sep), Len(s)), sep)

\* key in d, d[key] and d[key] = value for a dict kept as a sequence of pairs
dict_has(d, k) == \E i \in 1..Len(d) : d[i][1] = k
dict_get(d, k) == d[CHOOSE i \in 1..Len(d) : d[i][1] = k][2]
dict_set(d, k, v) ==
  IF dict_has(d, k)
    THEN [i \in 1..Len(d) |-> IF d[i][1] = k THEN <<k, v>> ELSE d[i]]
    ELSE Append(d, <<k, v>>)

\* os.getenv(key, default) on an environment kept as a dict
os_getenv(environ, key, default) ==
  IF dict_has(environ, key) THEN dict_get(environ, key) ELSE default

\* What a call gives back: a value, or the exception it raised ("" for none).
Return(v) == [exc |-> "", val |-> v]
Raise(e) == [exc |-> e, val |-> None]

\* ------------------------------------------------------------------------
\* src/pulse_otel/util.py
\* ------------------------------------------------------------------------
convert_key(key) == str_replace(str_lower(key), <<"_">>, <<".">>)

\* rename_key in which the last matching table entry wins
RECURSIVE rename_key_last_match(_, _)
rename_key_last_match(key, mapping) ==
  IF mapping = <<>> THEN key
  ELSE IF str_contains(key, mapping[Len(mapping)][1]) THEN mapping[Len(mapping)][2]
  ELSE rename_key_last_match(key, SubSeq(mapping, 1, Len(mapping) - 1))

\* The rename loop of format_env_variables for one key: the replacement of the
\* first table entry whose match string occurs in the key, else the key.
RECURSIVE rename_key(_, _)
rename_key(key, mapping) ==
  IF mapping = <<>> THEN key
  ELSE IF str_contains(key, mapping[1][1]) THEN mapping[1][2]
  ELSE rename_key(key, Tail(mapping))

RECURSIVE rename_all(_, _)
rename_all(env_variables, new_data) ==
  IF env_variables = <<>> THEN new_data
  ELSE rename_all(Tail(env_variables),
                  dict_set(new_data,
                           rename_key(env_variables[1][1], ENV_VARIABLES_MAPPING),
                           env_variables[1][2]))

RECURSIVE convert_all(_, _)
convert_all(new_data, converted) ==
  IF new_data = <<>> THEN converted
  ELSE convert_all(Tail(new_data),
                   dict_set(converted, convert_key(new_data[1][1]), new_data[1][2]))

format_env_variables(env_variables) == convert_all(rename_all(env_variables, <<>>), <<>>)

\* get_environ_vars that reads every unset variable as ""
get_environ_vars_no_defaults(environ) ==
  format_env_variables(
    [i \in 1..Len(DEFAULT_ENV_VARIABLES) |->
       <<DEFAULT_ENV_VARIABLES[i][1],
         os_getenv(environ, DEFAULT_ENV_VARIABLES[i][1], <<>>)>>])

get_environ_vars(environ) ==
  format_env_variables(
    [i \in 1..Len(DEFAULT_ENV_VARIABLES) |->
       <<DEFAULT_ENV_VARIABLES[i][1],
         os_getenv(environ, DEFAULT_ENV_VARIABLES[i][1], DEFAULT_ENV_VARIABLES[i][2])>>])

\* form_otel_collector_endpoint that refuses None only
form_otel_collector_endpoint_empty_allowed(project_id) ==
  IF project_id = None
    THEN Raise("ValueError")
    ELSE Return(str_replace(OTEL_COLLECTOR_ENDPOINT, <<"{","P","R","O","J","E","C","T","I","D","_","P","L","A","C","E","H","O","L","D","E","R","}">>, project_id))

form_otel_collector_endpoint(project_id) ==
  IF project_id = None \/ project_id = <<>>
    THEN Raise("ValueError")
    ELSE Return(str_replace(OTEL_COLLECTOR_ENDPOINT,
                            <<"{","P","R","O","J","E","C","T","I","D","_","P","L","A","C","E","H","O","L","D","E","R","}">>,
                            project_id))

\* get_internal_collector_endpoint that takes every first label beginning
\* with "nova-gateway" for a gateway
get_internal_collector_endpoint_any_gateway(environ) ==
  LET http_forwarded_host == os_getenv(environ, ENV_HTTP_FORWARDEDHOST, <<>>)
      host_parts == str_split(http_forwarded_host, <<".">>)
  IN  IF http_forwarded_host = <<>>
        THEN [exc |-> "ValueError", val |-> None,
              msg |-> "HTTP_FORWARDEDHOST is required"]
      ELSE IF Len(host_parts) > 1 /\ str_find(host_parts[1], <<"n","o","v","a","-","g","a","t","e","w","a","y">>) = 1
        THEN Return(str_replace(PULSE_INTERNAL_COLLECTOR_ENDPOINT, <<"{","N","O","V","A","_","C","E","L","L","_","P","L","A","C","E","H","O","L","D","E","R","}">>, host_parts[2]))
        ELSE [exc |-> "ValueError", val |-> None, msg |-> "Unable to extract nova cell"]

get_internal_collector_endpoint(environ) ==
  LET http_forwarded_host == os_getenv(environ, ENV_HTTP_FORWARDEDHOST, <<>>)
      host_parts == str_split(http_forwarded_host, <<".">>)
  IN  IF http_forwarded_host = <<>>
        THEN [exc |-> "ValueError", val |-> None,
              msg |-> "HTTP_FORWARDEDHOST is required"]
      ELSE IF Len(host_parts) > 1
              /\ (host_parts[1] = <<"n","o","v","a","-","g","a","t","e","w","a","y">>
                  \/ host_parts[1] = <<"n","o","v","a","-","g","a","t","e","w","a","y","-","s","t","g">>)
        THEN Return(str_replace(PULSE_INTERNAL_COLLECTOR_ENDPOINT,
                                <<"{","N","O","V","A","_","C","E","L","L","_","P","L","A","C","E","H","O","L","D","E","R","}">>,
                                host_parts[2]))
        ELSE [exc |-> "ValueError", val |-> None, msg |-> "Unable to extract nova cell"]

\* os.environ['TRACELOOP_TRACE_CONTENT'] = 'true' | 'false'
set_global_content_tracing(environ, enable_trace_content) ==
  dict_set(environ, ENV_TRACELOOP_TRACE_CONTENT,
           IF enable_trace_content THEN STR_true ELSE STR_false)

\* builtins.S2_OWNED_APP when it is set, else False
is_s2_owned_app(bi) == bi.S2_OWNED_APP

\* Imported by main.py from pulse_otel.util: builtins.FORCE_CONTENT_TRACING
\* when it is set, else False.
is_force_content_tracing_enabled(bi) == bi.FORCE_CONTENT_TRACING

\* ------------------------------------------------------------------------
\* State
\* ------------------------------------------------------------------------
VARIABLES
  os_environ,       \* os.environ, a dict
  builtins,         \* the notebook parameters injected into builtins
  fs_dirs,          \* the directories that exist
  heap,             \* heap[i] is the __dict__ of the i-th Pulse object made
  _pulse_instance,  \* main._pulse_instance: a reference into heap, 0 for None
  last,             \* what the latest Pulse(...) call did, for the properties
  context,          \* the current OpenTelemetry context, a dict
  association_properties,  \* Traceloop's association properties, a dict
  binding,          \* what the decorated name is bound to
  call,             \* the latest call of it, for the properties
  fs_files,         \* the files that exist: a dict from path to text
  jsonl,            \* the JSONLFileLogExporter object, once it is made
  sink,             \* the latest call on an exporter, for the properties
  threads           \* the threads of the process: what each is running

pulse_vars == <<os_environ, builtins, fs_dirs, heap, _pulse_instance, last,
               fs_files, jsonl, sink, threads>>
decorator_vars == <<context, association_properties, binding, call>>
vars == <<pulse_vars, decorator_vars>>

\* Pulse objects constructed in one process.
MaxInstances == 3

\* "key"
API_KEY ==
  <<"k","e","y">>
\* "http://collector:4317"
EXPLICIT_ENDPOINT ==
  <<"h","t","t","p",":","/","/","c","o","l","l","e","c","t","o","r",":","4","3","1","7">>
\* "p123"
PROJECT_ID ==
  <<"p","1","2","3">>
\* "nova-gateway.cell1.example.com"
GOOD_FORWARDED_HOST ==
  <<"n","o","v","a","-","g","a","t","e","w","a","y",".","c","e","l","l","1",".","e","x","a","m","p","l","e",".","c","o","m">>
\* "invalidhost.example.com"
BAD_FORWARDED_HOST ==
  <<"i","n","v","a","l","i","d","h","o","s","t",".","e","x","a","m","p","l","e",".","c","o","m">>
\* "/var/log/pulse/live.jsonl" and its directory
LIVE_LOGS_PATH ==
  <<"/","v","a","r","/","l","o","g","/","p","u","l","s","e","/","l","i","v","e",".","j","s","o","n","l">>
LIVE_LOGS_DIR ==
  <<"/","v","a","r","/","l","o","g","/","p","u","l","s","e">>

\* The keyword arguments of Pulse(...).  span_attribute_size_limit is passed on
\* to set_span_attribute_size_limit only and decides nothing here.
Args ==
  [write_to_file : BOOLEAN,
   write_to_traceloop : BOOLEAN,
   api_key : {None, <<>>, API_KEY},
   otel_collector_endpoint : {None, EXPLICIT_ENDPOINT},
   only_live_logs : BOOLEAN,
   enable_trace_content : BOOLEAN,
   without_traceloop : BOOLEAN,
   telemetry_enabled : BOOLEAN]

\* The collaborator that raises when it is called ("none": nobody does).
\* get_internal_collector_endpoint and form_otel_collector_endpoint raise by
\* themselves, on the environment.
Failures == {"none", "get_environ_vars", "init_log_provider", "exporter", "Traceloop.init"}

\* Python truth of a str or None
truthy(s) == s # None /\ s # <<>>

\* ------------------------------------------------------------------------
\* src/pulse_otel/main.py: get_jsonl_file_exporter
\* ------------------------------------------------------------------------
\* os.path.dirname
os_path_dirname(p) ==
  LET slashes == {i \in 1..Len(p) : p[i] = "/"}
      i == IF slashes = {} THEN 0 ELSE CHOOSE k \in slashes : \A j \in slashes : j <= k
      head == SubSeq(p, 1, i)
      keep == {k \in 1..Len(head) : head[k] # "/"}
  IN  IF keep = {} THEN head
      ELSE SubSeq(head, 1, CHOOSE k \in keep : \A j \in keep : j <= k)

\* TRUE when an exporter is made, FALSE when None is returned
get_jsonl_file_exporter(environ, dirs) ==
  LET jsonl_log_file_path == os_getenv(environ, LIVE_LOGS_FILE_PATH, None)
  IN  /\ jsonl_log_file_path # None
      /\ jsonl_log_file_path # <<>>
      /\ os_path_dirname(jsonl_log_file_path) \in dirs

\* ------------------------------------------------------------------------
\* src/pulse_otel/main.py: Pulse.__init__
\* A frame is the state of one running constructor: the environment it has
\* written so far, the calls it has made on its collaborators in order, the
\* exception in flight ("" for none), self.__dict__, the local
\* otel_collector_endpoint, the branch taken and the sinks handed over.
\* ------------------------------------------------------------------------
Frame(environ, args) ==
  [environ |-> environ,
   effects |-> <<>>,
   exc |-> "",
   logged |-> "",
   self_dict |-> <<>>,
   otel_collector_endpoint |-> args.otel_collector_endpoint,
   path |-> 0,
   span_exporter |-> "none",
   log_exporters |-> {}]

\* One call of a collaborator: it raises when it is the one `fail` names and is
\* skipped when an exception is already in flight.
Call(fr, name, fail) ==
  IF fr.exc # "" THEN fr
  ELSE IF fail = name THEN [fr EXCEPT !.exc = name]
  ELSE [fr EXCEPT !.effects = Append(@, name)]

\* Construction of an exporter object (fails when fail = "exporter").
NewExporter(fr, name, fail) ==
  IF fr.exc # "" THEN fr
  ELSE IF fail = "exporter" THEN [fr EXCEPT !.exc = name]
  ELSE [fr EXCEPT !.effects = Append(@, name)]

\* set_global_content_tracing(value) inside the constructor
SetContent(fr, value) ==
  IF fr.exc # "" THEN fr
  ELSE [fr EXCEPT !.environ = set_global_content_tracing(@, value),
                  !.effects = Append(@, "set_global_content_tracing")]

\* The live-log mirror: get_jsonl_file_exporter() and, when it gives an
\* exporter, a SimpleLogRecordProcessor on it.
AddJsonl(fr, dirs) ==
  IF fr.exc # "" THEN fr
  ELSE IF get_jsonl_file_exporter(fr.environ, dirs)
    THEN [fr EXCEPT !.effects = Append(@, "JSONLFileLogExporter"),
                    !.log_exporters = @ \cup {"jsonl"}]
    ELSE fr


\* ConfigPath with only_live_logs tested before write_to_file.
ConfigPath_live_logs_first(args) ==
  IF args.write_to_traceloop /\ truthy(args.api_key) THEN 1
  ELSE IF args.only_live_logs THEN 3
  ELSE IF args.write_to_file /\ ~args.without_traceloop THEN 2
  ELSE IF args.without_traceloop /\ args.otel_collector_endpoint # None THEN 4
  ELSE 5

\* The if / elif chain of the constructor: the number of the branch taken.
ConfigPath(args) ==
  IF args.write_to_traceloop /\ truthy(args.api_key) THEN 1
  ELSE IF args.write_to_file /\ ~args.without_traceloop THEN 2
  ELSE IF args.only_live_logs THEN 3
  ELSE IF args.without_traceloop /\ args.otel_collector_endpoint # None THEN 4
  ELSE 5

\* Assignments to the frame, skipped when an exception is in flight.
WithPath(fr, n) == [fr EXCEPT !.path = n]
WithSpanExporter(fr, kind) ==
  IF fr.exc # "" THEN fr ELSE [fr EXCEPT !.span_exporter = kind]
WithLogExporter(fr, kind) ==
  IF fr.exc # "" THEN fr ELSE [fr EXCEPT !.log_exporters = @ \cup {kind}]
WithConfig(fr, config) ==
  IF fr.exc # "" THEN fr ELSE [fr EXCEPT !.self_dict = dict_set(@, "config", config)]
WithEndpoint(fr, ep, name) ==
  IF fr.exc # "" THEN fr
  ELSE IF ep.exc # "" THEN [fr EXCEPT !.exc = name]
  ELSE [fr EXCEPT !.otel_collector_endpoint = ep.val, !.effects = Append(@, name)]

\* Pulse.init_log_provider
init_log_provider(fr, dirs, fail) ==
  Call(Call(AddJsonl(WithLogExporter(NewExporter(Call(fr,
         "init_log_provider", fail),
         "FileLogExporter", fail),
         "file"), dirs),
         "set_logger_provider", fail),
         "LoggingHandler", fail)

\* if write_to_traceloop and api_key:
TraceloopBranch(fr, args, dirs, fail) ==
  WithSpanExporter(Call(SetContent(init_log_provider(WithPath(fr, 1), dirs, fail),
       FALSE),
       "Traceloop.init", fail),
       "traceloop")

\* elif write_to_file and not without_traceloop:
FileBranch(fr, args, dirs, fail) ==
  WithSpanExporter(Call(NewExporter(init_log_provider(SetContent(WithPath(fr, 2),
       args.enable_trace_content /\ ~args.telemetry_enabled),
       dirs, fail),
       "CustomFileSpanExporter", fail),
       "Traceloop.init", fail),
       "file")

\* elif only_live_logs:
LiveLogsBranch(fr, args, dirs, fail) ==
  IF get_jsonl_file_exporter(fr.environ, dirs)
    THEN Call(Call(AddJsonl(WithPath(fr, 3), dirs),
           "set_logger_provider", fail),
           "LoggingHandler", fail)
    ELSE WithPath(fr, 3)

\* if write_to_file: exporter = CustomFileSpanExporter(LOCAL_TRACES_FILE)
FileInsteadOfOtlp(fr, args, fail) ==
  IF args.write_to_file THEN NewExporter(fr, "CustomFileSpanExporter", fail) ELSE fr

\* elif without_traceloop and otel_collector_endpoint is not None:
RawOtlpBranch(fr, args, dirs, fail) ==
  Call(Call(Call(WithSpanExporter(Call(FileInsteadOfOtlp(NewExporter(Call(WithPath(fr, 4),
       "TracerProvider", fail),
       "OTLPSpanExporter", fail),
       args, fail),
       "BatchSpanProcessor", fail),
       IF args.write_to_file THEN "file" ELSE "otlp"),
       "set_tracer_provider", fail),
       "LoggingInstrumentor", fail),
       "RequestsInstrumentor", fail)

\* else: lines 163-173, the choice of the collector
InternalCollector(fr) ==
  WithEndpoint(fr, get_internal_collector_endpoint(fr.environ),
               "get_internal_collector_endpoint")

\* ChooseCollector without the set_global_content_tracing(False) of line 172.
ChooseCollector_content_left_on(fr, args, bi, fail) ==
  IF is_force_content_tracing_enabled(bi)
    THEN Call(fr, "set_span_attribute_size_limit", fail)
  ELSE IF args.telemetry_enabled \/ is_s2_owned_app(bi)
    THEN InternalCollector(fr)
  ELSE fr

ChooseCollector(fr, args, bi, fail) ==
  IF is_force_content_tracing_enabled(bi)
    THEN Call(fr, "set_span_attribute_size_limit", fail)
  ELSE IF args.telemetry_enabled \/ is_s2_owned_app(bi)
    THEN InternalCollector(SetContent(fr, FALSE))
  ELSE fr

\* else: lines 175-180, the project's collector when none is chosen yet
ProjectCollector(fr) ==
  IF fr.exc # "" \/ fr.otel_collector_endpoint # None THEN fr
  ELSE IF ~dict_has(dict_get(fr.self_dict, "config"), PROJECT)
    THEN [fr EXCEPT !.exc = "ValueError"]
  ELSE WithEndpoint(fr,
         form_otel_collector_endpoint(dict_get(dict_get(fr.self_dict, "config"), PROJECT)),
         "form_otel_collector_endpoint")

\* else: the default OTLP branch
DefaultBranch(fr, args, bi, dirs, fail) ==
  WithSpanExporter(Call(NewExporter(Call(WithLogExporter(NewExporter(AddJsonl(Call(
       ProjectCollector(ChooseCollector(WithPath(fr, 5), args, bi, fail)),
       "set_logger_provider", fail),
       dirs),
       "OTLPLogExporter", fail),
       "otlp"),
       "LoggingHandler", fail),
       "OTLPSpanExporter", fail),
       "Traceloop.init", fail),
       "otlp")

\* The if / elif chain, entered with self.config set.
Branches(fr, args, bi, dirs, fail) ==
  IF fr.exc # "" THEN fr
  ELSE CASE ConfigPath(args) = 1 -> TraceloopBranch(fr, args, dirs, fail)
         [] ConfigPath(args) = 2 -> FileBranch(fr, args, dirs, fail)
         [] ConfigPath(args) = 3 -> LiveLogsBranch(fr, args, dirs, fail)
         [] ConfigPath(args) = 4 -> RawOtlpBranch(fr, args, dirs, fail)
         [] OTHER -> DefaultBranch(fr, args, bi, dirs, fail)

\* The body of the try block, lines 110-226.  environ_vars is what
\* get_environ_vars() returns in this environment.
TryBody(environ, environ_vars, bi, dirs, args, fail) ==
  Branches(WithConfig(Call(Frame(environ, args), "get_environ_vars", fail), environ_vars),
           args, bi, dirs, fail)

\* A handler that catches nothing: the exception leaves the constructor.
ExceptNothing(fr) == fr

\* except Exception as e: logger.error(...)
ExceptException(fr) ==
  [fr EXCEPT !.logged = fr.exc, !.exc = ""]

\* The first construction: try and except.
FirstInit(environ, environ_vars, bi, dirs, args, fail) ==
  ExceptException(TryBody(environ, environ_vars, bi, dirs, args, fail))

\* The early return without the __dict__.update of line 105.
ReuseInstance_no_copy(h, inst) == <<>>

\* if _pulse_instance is not None: the __dict__ the new object ends with
ReuseInstance(h, inst) == h[inst]

NoCall == [op |-> "none", self |-> 0, args |-> None, path |-> 0, effects |-> <<>>,
           logged |-> "", raised |-> FALSE, otel_collector_endpoint |-> None,
           span_exporter |-> "none", log_exporters |-> {}]

\* Finish that registers the instance only when nothing was caught
Finish_unless_failed(fr, self, args) ==
  /\ heap' = Append(heap, fr.self_dict)
  /\ os_environ' = fr.environ
  /\ _pulse_instance' = IF fr.logged = "" THEN self ELSE _pulse_instance
  /\ last' = [op |-> "init", self |-> self, args |-> args,
              path |-> fr.path, effects |-> fr.effects,
              logged |-> fr.logged, raised |-> fr.exc # "",
              otel_collector_endpoint |-> fr.otel_collector_endpoint,
              span_exporter |-> fr.span_exporter,
              log_exporters |-> fr.log_exporters]
  /\ UNCHANGED <<builtins, fs_dirs, fs_files, jsonl, sink, threads>>

\* Lines 230-233, reached unless an exception left the constructor.
Finish(fr, self, args) ==
  /\ heap' = Append(heap, fr.self_dict)
  /\ os_environ' = fr.environ
  /\ _pulse_instance' = IF fr.exc = "" THEN self ELSE _pulse_instance
  /\ last' = [op |-> "init", self |-> self, args |-> args,
              path |-> fr.path, effects |-> fr.effects,
              logged |-> fr.logged, raised |-> fr.exc # "",
              otel_collector_endpoint |-> fr.otel_collector_endpoint,
              span_exporter |-> fr.span_exporter,
              log_exporters |-> fr.log_exporters]
  /\ UNCHANGED <<builtins, fs_dirs, fs_files, jsonl, sink, threads>>

FirstConstruction(self, environ_vars) ==
  \E args \in Args, fail \in Failures :
    Finish(FirstInit(os_environ, environ_vars, builtins, fs_dirs, args, fail), self, args)

\* Pulse(**args), the whole constructor.
Pulse__init__ ==
  /\ Len(heap) < MaxInstances
  /\ IF _pulse_instance # 0
       THEN /\ heap' = Append(heap, ReuseInstance(heap, _pulse_instance))
            /\ last' = [NoCall EXCEPT !.op = "reuse", !.self = Len(heap) + 1]
            /\ UNCHANGED <<os_environ, builtins, fs_dirs, _pulse_instance,
                            fs_files, jsonl, sink, threads>>
       ELSE FirstConstruction(Len(heap) + 1, get_environ_vars(os_environ))

\* The environments a process can start in.
InitEnviron ==
  { p \o h \o l \o t :
      p \in {<<>>, << <<ENV_SINGLESTOREDB_PROJECT, PROJECT_ID>> >>},
      h \in {<<>>, << <<ENV_HTTP_FORWARDEDHOST, GOOD_FORWARDED_HOST>> >>,
             << <<ENV_HTTP_FORWARDEDHOST, BAD_FORWARDED_HOST>> >>},
      l \in {<<>>, << <<LIVE_LOGS_FILE_PATH, LIVE_LOGS_PATH>> >>},
      t \in {<<>>, << <<ENV_TRACELOOP_TRACE_CONTENT, STR_true>> >>} }

PulseInit ==
  /\ context = <<>>
  /\ association_properties = <<>>
  /\ binding = [decorator |-> "none"]
  /\ call = [op |-> "none"]
  /\ os_environ \in InitEnviron
  /\ builtins \in [S2_OWNED_APP : BOOLEAN, FORCE_CONTENT_TRACING : BOOLEAN]
  /\ fs_dirs = {LIVE_LOGS_DIR}
  /\ heap = <<>>
  /\ _pulse_instance = 0
  /\ last = NoCall
  /\ fs_files = <<>>
  /\ jsonl = [made |-> FALSE]
  /\ sink = [op |-> "none", n |-> 0]
  /\ threads = <<>>

PulseNext == Pulse__init__ /\ UNCHANGED decorator_vars

PulseSpec == PulseInit /\ [][PulseNext]_vars

\* ------------------------------------------------------------------------
\* src/pulse_otel/main.py: Pulse.__init__ run by two threads.  Nothing in the
\* constructor takes a lock, so another thread can run between the test of
\* line 102, the try block and the assignment of line 231.  The try block of
\* one thread is taken as one step.
\* ------------------------------------------------------------------------
Threads == {1, 2}

\* Pulse(), Pulse(write_to_file=True), Pulse(otel_collector_endpoint=...)
RaceArgs ==
  {a \in Args : /\ ~a.write_to_traceloop /\ a.api_key = None /\ ~a.only_live_logs
                /\ a.enable_trace_content /\ ~a.without_traceloop
                /\ ~a.telemetry_enabled}
RaceFailures == {"none", "Traceloop.init"}

\* A thread that has not called Pulse(...) yet.
NotStarted ==
  [pc |-> "start", self |-> 0, args |-> None, fail |-> "none",
   fr |-> Frame(<<>>, [otel_collector_endpoint |-> None])]

\* Line 231 written as `if _pulse_instance is None: _pulse_instance = self`.
Pulse__init__assign_if_unset(t) ==
  /\ threads[t].pc = "assign"
  /\ _pulse_instance' = IF _pulse_instance = 0 THEN threads[t].self ELSE _pulse_instance
  /\ threads' = [threads EXCEPT ![t].pc = "done"]
  /\ UNCHANGED <<os_environ, builtins, fs_dirs, heap, last, fs_files, jsonl, sink,
                 decorator_vars>>

\* Pulse(**args) up to the try: the new object and lines 102-106.
Pulse__init__check(t) ==
  /\ threads[t].pc = "start"
  /\ \E args \in RaceArgs, fail \in RaceFailures :
       IF _pulse_instance # 0
         THEN /\ heap' = Append(heap, ReuseInstance(heap, _pulse_instance))
              /\ threads' = [threads EXCEPT ![t].pc = "done",
                                            ![t].self = Len(heap) + 1,
                                            ![t].args = args]
         ELSE /\ heap' = Append(heap, <<>>)
              /\ threads' = [threads EXCEPT ![t].pc = "try",
                                            ![t].self = Len(heap) + 1,
                                            ![t].args = args,
                                            ![t].fail = fail]
  /\ UNCHANGED <<os_environ, builtins, fs_dirs, _pulse_instance, last, fs_files, jsonl,
                 sink, decorator_vars>>

\* The try block and its except clause, lines 108-228.
Pulse__init__try(t) ==
  /\ threads[t].pc = "try"
  /\ LET fr == FirstInit(os_environ, get_environ_vars(os_environ), builtins, fs_dirs,
                         threads[t].args, threads[t].fail)
     IN  /\ os_environ' = fr.environ
         /\ heap' = [heap EXCEPT ![threads[t].self] = fr.self_dict]
         /\ threads' = [threads EXCEPT ![t].pc = "assign", ![t].fr = fr]
  /\ UNCHANGED <<builtins, fs_dirs, _pulse_instance, last, fs_files, jsonl, sink,
                 decorator_vars>>

\* _pulse_instance = self, line 231.
Pulse__init__assign(t) ==
  /\ threads[t].pc = "assign"
  /\ _pulse_instance' = IF threads[t].fr.exc = "" THEN threads[t].self
                        ELSE _pulse_instance
  /\ threads' = [threads EXCEPT ![t].pc = "done"]
  /\ UNCHANGED <<os_environ, builtins, fs_dirs, heap, last, fs_files, jsonl, sink,
                 decorator_vars>>

RaceInit ==
  /\ context = <<>>
  /\ association_properties = <<>>
  /\ binding = [decorator |-> "none"]
  /\ call = [op |-> "none"]
  /\ os_environ \in {<<>>, << <<ENV_SINGLESTOREDB_PROJECT, PROJECT_ID>> >>}
  /\ builtins = [S2_OWNED_APP |-> FALSE, FORCE_CONTENT_TRACING |-> FALSE]
  /\ fs_dirs = {LIVE_LOGS_DIR}
  /\ heap = <<>>
  /\ _pulse_instance = 0
  /\ last = NoCall
  /\ fs_files = <<>>
  /\ jsonl = [made |-> FALSE]
  /\ sink = [op |-> "none", n |-> 0]
  /\ threads = [t \in Threads |-> NotStarted]

RaceSpec ==
  RaceInit /\ [][\E t \in Threads : \/ Pulse__init__check(t)
                                    \/ Pulse__init__try(t)
                                    \/ Pulse__init__assign(t)]_vars

\* ------------------------------------------------------------------------
\* Python values of mixed type (decorator arguments, keyword arguments,
\* results) carry their type: [t |-> "None"], [t |-> "str", s |-> chars],
\* [t |-> "bool", b |-> ...], [t |-> "dict", d |-> pairs],
\* [t |-> "object", attrs |-> pairs], [t |-> "function", ...] and
\* [t |-> "closure", code |-> the def that made it, ...].
\* ------------------------------------------------------------------------
PyNone == [t |-> "None"]
PyStr(s) == [s |-> s, t |-> "str"]
PyBool(b) == [t |-> "bool", b |-> b]
PyDict(d) == [t |-> "dict", d |-> d]
PyObject(attrs) == [t |-> "object", attrs |-> attrs]

\* bool(v)
py_truthy(v) ==
  CASE v.t = "None" -> FALSE
    [] v.t = "str" -> v.s # <<>>
    [] v.t = "bool" -> v.b
    [] v.t = "dict" -> v.d # <<>>
    [] OTHER -> TRUE

\* d.get(k, default) on the pairs of a dict
py_get(d, k, default) == IF dict_has(d, k) THEN dict_get(d, k) ELSE default

\* hasattr(v, name) for the attributes the program asks for
py_hasattr(v, name) ==
  CASE v.t = "object" -> dict_has(v.attrs, name)
    [] v.t = "dict" -> name = "get"
    [] OTHER -> FALSE

\* str.strip()
WHITESPACE == {" ", "\t", "\n", "\r", "\f"}
str_strip(s) ==
  LET keep == {i \in 1..Len(s) : s[i] \notin WHITESPACE}
  IN  IF keep = {} THEN <<>>
      ELSE SubSeq(s, CHOOSE i \in keep : \A j \in keep : i <= j,
                     CHOOSE i \in keep : \A j \in keep : j <= i)

\* ------------------------------------------------------------------------
\* src/pulse_otel/util.py: the session id of a call
\* ------------------------------------------------------------------------
\* The loop of extract_session_id over the parts of the baggage header: the
\* stripped value of the first part whose stripped key is the session key,
\* else `session_id` as it was.
RECURSIVE scan_baggage(_, _)
scan_baggage(parts, session_id) ==
  IF parts = <<>> THEN session_id
  ELSE LET part == str_strip(parts[1])
           eq == str_find(part, <<"=">>)
       IN  IF eq # 0 /\ str_strip(SubSeq(part, 1, eq - 1)) = HEADER_INCOMING_SESSION_ID
             THEN PyStr(str_strip(SubSeq(part, eq + 1, Len(part))))
             ELSE scan_baggage(Tail(parts), session_id)

\* The headers extract_session_id reads: request.headers, else kwargs['headers']
session_headers(kwargs) ==
  IF py_truthy(py_get(kwargs, "request", PyNone))
     /\ py_hasattr(py_get(kwargs, "request", PyNone), "headers")
    THEN dict_get(py_get(kwargs, "request", PyNone).attrs, "headers")
    ELSE py_get(kwargs, "headers", PyDict(<<>>))

\* headers.get('baggage') if hasattr(headers, "get") else None
session_baggage(headers) ==
  IF py_hasattr(headers, "get") THEN py_get(headers.d, "baggage", PyNone) ELSE PyNone

\* baggage_session_id looking at the first member of the header only.
baggage_session_id_first_member(baggage, session_id) ==
  IF ~py_truthy(baggage) \/ baggage.t # "str" THEN session_id
  ELSE scan_baggage(<<str_split(baggage.s, <<",">>)[1]>>, session_id)

\* baggage.split(',') on something that is no str raises, and the except
\* clause of line 113 returns session_id as it is then.
baggage_session_id(baggage, session_id) ==
  IF ~py_truthy(baggage) \/ baggage.t # "str" THEN session_id
  ELSE scan_baggage(str_split(baggage.s, <<",">>), session_id)

\* extract_session_id reading the baggage header before the keyword.
extract_session_id_header_first(kwargs) ==
  IF py_truthy(baggage_session_id(session_baggage(session_headers(kwargs)), PyNone))
    THEN baggage_session_id(session_baggage(session_headers(kwargs)), PyNone)
    ELSE py_get(kwargs, "session_id", PyNone)

extract_session_id(kwargs) ==
  IF py_truthy(py_get(kwargs, "session_id", PyNone))
    THEN py_get(kwargs, "session_id", PyNone)
    ELSE baggage_session_id(session_baggage(session_headers(kwargs)),
                            py_get(kwargs, "session_id", PyNone))

body_session_id(request_body) ==
  IF ~py_truthy(request_body) THEN PyNone
  ELSE IF request_body.t = "dict" THEN py_get(request_body.d, "session_id", PyNone)
  ELSE IF py_hasattr(request_body, "session_id") THEN dict_get(request_body.attrs, "session_id")
  ELSE PyNone

extract_session_id_from_body(kwargs) == body_session_id(py_get(kwargs, "body", PyNone))

\* a or b
py_or(a, b) == IF py_truthy(a) THEN a ELSE b

\* set_session_id attaching sixteen zeros when there is no session id.
set_session_id_with_fallback(assoc, session_id) ==
  << <<SESSION_ID, IF ~py_truthy(session_id)
                     THEN PyStr([i \in 1..16 |-> "0"]) ELSE session_id>> >>

\* The association properties after add_session_id_to_span_attributes(**kwargs)
set_session_id(assoc, session_id) ==
  IF ~py_truthy(session_id) THEN assoc ELSE << <<SESSION_ID, session_id>> >>

\* add_session_id_to_span_attributes trying the body before the header.
add_session_id_body_first(assoc, kwargs) ==
  set_session_id(assoc, py_or(extract_session_id_from_body(kwargs), extract_session_id(kwargs)))

add_session_id_to_span_attributes(assoc, kwargs) ==
  set_session_id(assoc, py_or(extract_session_id(kwargs), extract_session_id_from_body(kwargs)))

\* Pulse.enable_content_tracing(enabled) leaving alone an override the
\* context already holds.
Pulse_enable_content_tracing_keeping_override(ctx, enabled) ==
  IF dict_has(ctx, "override_enable_content_tracing") THEN ctx
  ELSE dict_set(ctx, "override_enable_content_tracing", enabled)

\* ------------------------------------------------------------------------
\* src/pulse_otel/main.py: Pulse.enable_content_tracing and the decorators
\* ------------------------------------------------------------------------
\* attach(set_value("override_enable_content_tracing", enabled)): the token
\* attach returns is dropped.
Pulse_enable_content_tracing(ctx, enabled) ==
  dict_set(ctx, "override_enable_content_tracing", enabled)

\* The user's function: def f(*args, **kwargs).  It raises on the argument
\* "boom" and returns a value made of its arguments otherwise.
\* "f"
USER_FUNCTION_NAME ==
  <<"f">>
\* "boom"
BOOM ==
  <<"b","o","o","m">>
UserFunction == [t |-> "function", name |-> USER_FUNCTION_NAME]
call_function(func, args, kwargs) ==
  IF func.t # "function" THEN [exc |-> "TypeError", val |-> PyNone]
  ELSE IF args # <<>> /\ args[1] = PyStr(BOOM) THEN [exc |-> "RuntimeError", val |-> PyNone]
  ELSE [exc |-> "", val |-> [t |-> "result", of |-> func.name, args |-> args, kwargs |-> kwargs]]

\* A running call: the context and association properties as written so far,
\* the calls made in order, the exception in flight and the value returned.
Run(ctx, assoc) ==
  [context |-> ctx, association_properties |-> assoc, trace |-> <<>>,
   exc |-> "", val |-> PyNone]

\* Pulse.enable_content_tracing(enabled) inside a wrapper
EnableStep(run, enabled) ==
  IF run.exc # "" THEN run
  ELSE [run EXCEPT !.context = Pulse_enable_content_tracing(@, enabled),
                   !.trace = Append(@, [ev |-> "enable_content_tracing",
                                        arg |-> PyBool(enabled)])]

\* add_session_id_to_span_attributes(**kwargs) inside a wrapper
SessionStep(run, kwargs) ==
  IF run.exc # "" THEN run
  ELSE [run EXCEPT !.association_properties = add_session_id_to_span_attributes(@, kwargs),
                   !.trace = Append(@, [ev |-> "add_session_id_to_span_attributes",
                                        arg |-> PyDict(kwargs)])
                             \o IF add_session_id_to_span_attributes(<<>>, kwargs) = <<>>
                                  THEN <<>>
                                  ELSE <<[ev |-> "Traceloop.set_association_properties",
                                          arg |-> PyDict(add_session_id_to_span_attributes(
                                                           <<>>, kwargs))]>>]

\* decorated_func(*args, **kwargs): Traceloop's tool(name)(func) or
\* agent(name)(func), which runs func inside its span and hands back what
\* func returns or raises.
Returned(run, r) == [run EXCEPT !.exc = r.exc, !.val = r.val]
DelegateStep(run, kind, name, func, args, kwargs) ==
  IF run.exc # "" THEN run
  ELSE Returned([run EXCEPT !.trace = Append(@, [ev |-> kind, arg |-> name])],
                call_function(func, args, kwargs))

\* pulse_tool's decorator(func) with `func.__name__` used whatever name is.
pulse_tool_decorator_name_ignored(name, enable_content_tracing, func) ==
  [t |-> "closure", code |-> "pulse_tool.decorator.wrapper",
   name |-> PyStr(func.name),
   func |-> func, wrapped |-> func,
   enable_content_tracing |-> enable_content_tracing]

\* pulse_tool's decorator(func): the wrapper it returns
pulse_tool_decorator(name, enable_content_tracing, func) ==
  [t |-> "closure", code |-> "pulse_tool.decorator.wrapper",
   name |-> IF py_truthy(name) THEN name ELSE PyStr(func.name),
   func |-> func, wrapped |-> func,
   enable_content_tracing |-> enable_content_tracing]

\* pulse_tool's wrapper(func) of the positional-string shape: inner_wrapper
pulse_tool_wrapper(_func, enable_content_tracing, func) ==
  [t |-> "closure", code |-> "pulse_tool.wrapper.inner_wrapper",
   name |-> _func,
   func |-> func, wrapped |-> func,
   enable_content_tracing |-> enable_content_tracing]

pulse_tool(_func, name, enable_content_tracing) ==
  IF _func.t = "None"
    THEN [t |-> "closure", code |-> "pulse_tool.decorator", name |-> name,
          enable_content_tracing |-> enable_content_tracing]
  ELSE IF _func.t = "str"
    THEN [t |-> "closure", code |-> "pulse_tool.wrapper", name |-> _func,
          enable_content_tracing |-> enable_content_tracing]
  ELSE pulse_tool_decorator(name, enable_content_tracing, _func)

\* pulse_agent's decorator(func): the wrapper it returns
pulse_agent_decorator(name, enable_content_tracing, func) ==
  [t |-> "closure", code |-> "pulse_agent.decorator.wrapper",
   name |-> name,
   func |-> func, wrapped |-> func,
   enable_content_tracing |-> enable_content_tracing]

pulse_agent(name, enable_content_tracing) ==
  [t |-> "closure", code |-> "pulse_agent.decorator", name |-> name,
   enable_content_tracing |-> enable_content_tracing]

\* The tool wrapper calling Pulse.enable_content_tracing() with its default.
tool_wrapper_default_flag(run, w, args, kwargs) ==
  DelegateStep(EnableStep(run, TRUE), "tool", w.name, w.func, args, kwargs)

\* def wrapper(*args, **kwargs) of pulse_tool, lines 324-326 and 339-341
tool_wrapper(run, w, args, kwargs) ==
  DelegateStep(EnableStep(run, w.enable_content_tracing),
               "tool", w.name, w.func, args, kwargs)

\* The agent wrapper without its `return decorated_func(*args, **kwargs)`.
agent_wrapper_no_delegate(run, w, args, kwargs) ==
  EnableStep(SessionStep(run, kwargs), w.enable_content_tracing)

\* def wrapper(*args, **kwargs) of pulse_agent, lines 373-376
agent_wrapper(run, w, args, kwargs) ==
  DelegateStep(EnableStep(SessionStep(run, kwargs), w.enable_content_tracing),
               "agent", w.name, w.func, args, kwargs)

\* extract(request.headers) of opentelemetry.propagate: the context made of
\* the propagation headers the carrier has, empty when it has none.
extract(headers) ==
  SelectSeq(headers.d, LAMBDA kv : kv[1] \in {"traceparent", "baggage"})

\* def wrapper(*args, **kwargs) of observe, lines 408-432; `request` is
\* kwargs.get("request"), else the first positional argument that is a Request.
observe_wrapper(run, w, args, kwargs) ==
  LET is_request(v) == v.t = "object" /\ py_get(v.attrs, "__class__", PyNone) = PyStr(<<"Request">>)
      found == {i \in 1..Len(args) : is_request(args[i])}
      request == IF py_get(kwargs, "request", PyNone) # PyNone
                   THEN py_get(kwargs, "request", PyNone)
                 ELSE IF found = {} THEN PyNone
                 ELSE args[CHOOSE i \in found : \A j \in found : i <= j]
      ctx == IF py_truthy(request) THEN extract(dict_get(request.attrs, "headers")) ELSE <<>>
      started == SessionStep(run, kwargs)
  IN  IF started.exc # "" THEN started
      ELSE IF py_truthy(request) /\ ~py_hasattr(request, "headers")
        THEN [started EXCEPT !.exc = "AttributeError"]
      ELSE IF ctx # <<>>
        THEN DelegateStep([started EXCEPT !.trace =
                            Append(@, [ev |-> "tracer.start_as_current_span", arg |-> w.name,
                                       context |-> ctx, kind |-> "SERVER"])],
                          "agent", w.name, w.func, args, kwargs)
      ELSE DelegateStep(started, "agent", w.name, w.func, args, kwargs)

\* observe(name): the decorator it returns
observe(name) ==
  [t |-> "closure", code |-> "observe.decorator", name |-> name]

\* A def taking the one parameter func, called with these arguments
one_parameter(run, args, kwargs, result) ==
  IF Len(args) = 1 /\ kwargs = <<>>
    THEN [run EXCEPT !.val = result]
    ELSE [run EXCEPT !.exc = "TypeError"]

\* v(*args, **kwargs) for the values a decorated name can be bound to
py_call(run, v, args, kwargs) ==
  CASE v.t = "function" -> Returned(run, call_function(v, args, kwargs))
    [] v.t = "closure" /\ v.code \in {"pulse_tool.decorator.wrapper",
                                      "pulse_tool.wrapper.inner_wrapper"} ->
         tool_wrapper(run, v, args, kwargs)
    [] v.t = "closure" /\ v.code = "pulse_agent.decorator.wrapper" ->
         agent_wrapper(run, v, args, kwargs)
    [] v.t = "closure" /\ v.code = "pulse_tool.decorator" ->
         one_parameter(run, args, kwargs,
           IF args = <<>> THEN PyNone
           ELSE pulse_tool_decorator(v.name, v.enable_content_tracing, args[1]))
    [] v.t = "closure" /\ v.code = "pulse_tool.wrapper" ->
         one_parameter(run, args, kwargs,
           IF args = <<>> THEN PyNone
           ELSE pulse_tool_wrapper(v.name, v.enable_content_tracing, args[1]))
    [] v.t = "closure" /\ v.code = "pulse_agent.decorator" ->
         one_parameter(run, args, kwargs,
           IF args = <<>> THEN PyNone
           ELSE pulse_agent_decorator(v.name, v.enable_content_tracing, args[1]))
    [] v.t = "closure" /\ v.code = "observe.decorator.wrapper" ->
         observe_wrapper(run, v, args, kwargs)
    [] v.t = "closure" /\ v.code = "observe.decorator" ->
         one_parameter(run, args, kwargs,
           IF args = <<>> THEN PyNone
           ELSE [t |-> "closure", code |-> "observe.decorator.wrapper", name |-> v.name,
                 func |-> args[1], wrapped |-> args[1]])
    [] OTHER -> [run EXCEPT !.exc = "TypeError"]

\* The decorated name before any decorator is applied: the function itself.
Undecorated ==
  [decorator |-> "none", shape |-> "none", name |-> PyNone,
   enable_content_tracing |-> TRUE, value |-> UserFunction]

NoDecoratorCall ==
  [op |-> "none", args |-> <<>>, kwargs |-> <<>>, trace |-> <<>>, exc |-> "",
   val |-> PyNone]

\* "N", a name given to a decorator
GIVEN_NAME ==
  <<"N">>
\* "s1", "b1" and a baggage header
KW_SESSION_ID ==
  <<"s","1">>
BODY_SESSION_ID ==
  <<"b","1">>
\* "singlestore-session-id=42, other=1"
BAGGAGE ==
  <<"s","i","n","g","l","e","s","t","o","r","e","-","s","e","s","s","i","o","n","-","i","d","=","4","2",","," ","o","t","h","e","r","=","1">>

\* The arguments the decorated name is called with.
CallArgs == {<<>>, <<PyStr(<<"x">>)>>, <<PyStr(BOOM)>>}
CallKwargs ==
  {<<>>,
   << <<"session_id", PyStr(KW_SESSION_ID)>> >>,
   << <<"headers", PyDict(<< <<"baggage", PyStr(BAGGAGE)>> >>)>> >>,
   << <<"body", PyDict(<< <<"session_id", PyStr(BODY_SESSION_ID)>> >>)>> >>,
   << <<"session_id", PyStr(KW_SESSION_ID)>>,
      <<"headers", PyDict(<< <<"baggage", PyStr(BAGGAGE)>> >>)>> >>,
   << <<"session_id", PyStr(KW_SESSION_ID)>>,
      <<"body", PyDict(<< <<"session_id", PyStr(BODY_SESSION_ID)>> >>)>> >>,
   << <<"headers", PyDict(<< <<"baggage", PyStr(BAGGAGE)>> >>)>>,
      <<"body", PyDict(<< <<"session_id", PyStr(BODY_SESSION_ID)>> >>)>> >>,
   << <<"session_id", PyStr(KW_SESSION_ID)>>,
      <<"headers", PyDict(<< <<"baggage", PyStr(BAGGAGE)>> >>)>>,
      <<"body", PyDict(<< <<"session_id", PyStr(BODY_SESSION_ID)>> >>)>> >>}

\* expr(f) of `@expr` above `def f`
decorate(expr) == py_call(Run(<<>>, <<>>), expr, <<UserFunction>>, <<>>).val

\* The name `f` after `@expr` above `def f`.
Bound(decorator, shape, name, enable_content_tracing, value) ==
  [decorator |-> decorator, shape |-> shape, name |-> name,
   enable_content_tracing |-> enable_content_tracing, value |-> value]

\* The decorated name has not been called yet.
NotCalledYet ==
  /\ call' = NoDecoratorCall
  /\ UNCHANGED <<context, association_properties, pulse_vars>>

\* @pulse_tool
DecorateToolBare ==
  /\ binding' = Bound("pulse_tool", "bare", PyNone, TRUE,
                      pulse_tool(UserFunction, PyNone, TRUE))
  /\ NotCalledYet

\* @pulse_tool(), @pulse_tool(name=..., enable_content_tracing=...)
DecorateToolKeyword ==
  \E name \in {PyNone, PyStr(<<>>), PyStr(GIVEN_NAME)}, ect \in BOOLEAN :
    /\ binding' = Bound("pulse_tool", "keyword", name, ect,
                        decorate(pulse_tool(PyNone, name, ect)))
    /\ NotCalledYet

\* @pulse_tool("N"), @pulse_tool("N", enable_content_tracing=...)
DecorateToolPositional ==
  \E name \in {PyStr(<<>>), PyStr(GIVEN_NAME)}, ect \in BOOLEAN :
    /\ binding' = Bound("pulse_tool", "positional", name, ect,
                        decorate(pulse_tool(name, PyNone, ect)))
    /\ NotCalledYet

\* @pulse_agent
DecorateAgentBare ==
  /\ binding' = Bound("pulse_agent", "bare", PyNone, TRUE,
                      pulse_agent(UserFunction, TRUE))
  /\ NotCalledYet

\* @pulse_agent(name="N"), @pulse_agent(name="N", enable_content_tracing=...)
DecorateAgentKeyword ==
  \E name \in {PyStr(<<>>), PyStr(GIVEN_NAME)}, ect \in BOOLEAN :
    /\ binding' = Bound("pulse_agent", "keyword", name, ect,
                        decorate(pulse_agent(name, ect)))
    /\ NotCalledYet

\* @pulse_agent("N"), @pulse_agent("N", enable_content_tracing=...)
DecorateAgentPositional ==
  \E name \in {PyStr(<<>>), PyStr(GIVEN_NAME)}, ect \in BOOLEAN :
    /\ binding' = Bound("pulse_agent", "positional", name, ect,
                        decorate(pulse_agent(name, ect)))
    /\ NotCalledYet

\* The state after a call has run.
AfterCall(run, args, kwargs) ==
  /\ context' = run.context
  /\ association_properties' = run.association_properties
  /\ call' = [op |-> "call", args |-> args, kwargs |-> kwargs, trace |-> run.trace,
              exc |-> run.exc, val |-> run.val]
  /\ UNCHANGED <<binding, pulse_vars>>

\* f(*args, **kwargs) on the decorated name
CallDecorated ==
  \E args \in CallArgs, kwargs \in CallKwargs :
    AfterCall(py_call(Run(context, association_properties), binding.value, args, kwargs),
              args, kwargs)

\* Pulse.enable_content_tracing(), Pulse.enable_content_tracing(enabled)
EnableContentTracing ==
  \E given \in {<<>>, <<PyBool(TRUE)>>, <<PyBool(FALSE)>>} :
    /\ context' = Pulse_enable_content_tracing(context,
                    IF given = <<>> THEN TRUE ELSE given[1].b)
    /\ call' = [NoDecoratorCall EXCEPT !.op = "enable_content_tracing", !.args = given]
    /\ UNCHANGED <<association_properties, binding, pulse_vars>>

DecoratorIdle ==
  /\ context = <<>>
  /\ association_properties = <<>>
  /\ binding = Undecorated
  /\ call = NoDecoratorCall

DecoratorInit ==
  /\ os_environ \in {<<>>, << <<ENV_TRACELOOP_CONTENT_TRACING, STR_true>> >>,
                     << <<ENV_TRACELOOP_CONTENT_TRACING, STR_false>> >>}
  /\ builtins = [S2_OWNED_APP |-> FALSE, FORCE_CONTENT_TRACING |-> FALSE]
  /\ fs_dirs = {}
  /\ heap = <<>>
  /\ _pulse_instance = 0
  /\ last = NoCall
  /\ fs_files = <<>>
  /\ jsonl = [made |-> FALSE]
  /\ sink = [op |-> "none", n |-> 0]
  /\ threads = <<>>
  /\ DecoratorIdle

DecoratorNext ==
  \/ DecorateToolBare
  \/ DecorateToolKeyword
  \/ DecorateToolPositional
  \/ DecorateAgentBare
  \/ DecorateAgentKeyword
  \/ DecorateAgentPositional
  \/ CallDecorated
  \/ EnableContentTracing

DecoratorSpec == DecoratorInit /\ [][DecoratorNext]_vars

\* ------------------------------------------------------------------------
\* pulse_tool-wrapped functions called from two threads.  attach() of
\* opentelemetry.context replaces the current context, which is kept in a
\* contextvars.ContextVar: every thread has a current context of its own and
\* starts with an empty one.  os.environ belongs to the process.
\* ------------------------------------------------------------------------
\* A thread that is not inside a decorated call.
NotCalling ==
  [pc |-> "idle", context |-> <<>>, enable_content_tracing |-> TRUE,
   observed |-> PyNone, exc |-> ""]

\* wrapper(*args, **kwargs) in thread t up to the delegation, line 325:
\* Pulse.enable_content_tracing(enable_content_tracing)
ThreadEnable(t) ==
  /\ threads[t].pc = "idle"
  /\ \E flag \in BOOLEAN :
       /\ threads' = [threads EXCEPT
                        ![t].pc = "enabled",
                        ![t].enable_content_tracing = flag,
                        ![t].context = EnableStep(Run(threads[t].context, <<>>),
                                                  flag).context]
       /\ call' = [NoDecoratorCall EXCEPT !.op = "enable_content_tracing",
                                          !.args = <<PyBool(flag)>>]
  /\ UNCHANGED <<context, association_properties, binding, os_environ, builtins,
                 fs_dirs, heap, _pulse_instance, last, fs_files, jsonl, sink>>

\* return decorated_func(*args, **kwargs) in thread t, line 326: Traceloop's
\* instrumentation reads override_enable_content_tracing from the current
\* context while the function runs.
ThreadDelegate(t) ==
  /\ threads[t].pc = "enabled"
  /\ \E args \in CallArgs :
       LET w == pulse_tool_decorator(PyNone, threads[t].enable_content_tracing,
                                     UserFunction)
           run == DelegateStep(Run(threads[t].context, <<>>), "tool", w.name, w.func,
                               args, <<>>)
       IN  threads' = [threads EXCEPT
                         ![t].pc = "idle",
                         ![t].observed = PyBool(dict_get(run.context,
                                            "override_enable_content_tracing")),
                         ![t].exc = run.exc]
  /\ UNCHANGED <<context, association_properties, binding, call, os_environ, builtins,
                 fs_dirs, heap, _pulse_instance, last, fs_files, jsonl, sink>>

ThreadsInit ==
  /\ os_environ \in {<<>>, << <<ENV_TRACELOOP_TRACE_CONTENT, STR_true>> >>}
  /\ builtins = [S2_OWNED_APP |-> FALSE, FORCE_CONTENT_TRACING |-> FALSE]
  /\ fs_dirs = {}
  /\ heap = <<>>
  /\ _pulse_instance = 0
  /\ last = NoCall
  /\ fs_files = <<>>
  /\ jsonl = [made |-> FALSE]
  /\ sink = [op |-> "none", n |-> 0]
  /\ context = <<>>
  /\ association_properties = <<>>
  /\ binding = Undecorated
  /\ call = NoDecoratorCall
  /\ threads = [t \in Threads |-> NotCalling]

ThreadsSpec ==
  ThreadsInit /\ [][\E t \in Threads : ThreadEnable(t) \/ ThreadDelegate(t)]_vars

\* ------------------------------------------------------------------------
\* Functions decorated with observe
\* ------------------------------------------------------------------------
\* @observe("N")
DecorateObserve ==
  /\ binding' = Bound("observe", "positional", PyStr(GIVEN_NAME), TRUE,
                      decorate(observe(PyStr(GIVEN_NAME))))
  /\ NotCalledYet

\* f(*args, **kwargs) on an observe-wrapped function: with and without a
\* Request (carrying a traceparent header, a baggage header, or neither) as
\* the `request` keyword or as a positional argument, and with a `request`
\* keyword that is no Request and has no headers.
CallObserved ==
  /\ binding.decorator = "observe"
  /\ LET Request(headers) ==
           PyObject(<< <<"__class__", PyStr(<<"Request">>)>>, <<"headers", PyDict(headers)>> >>)
         traced == Request(<< <<"traceparent", PyStr(<<"0","0","-","t","-","s","-","0","1">>)>> >>)
         tagged == Request(<< <<"baggage", PyStr(BAGGAGE)>> >>)
         plain == Request(<< <<"host", PyStr(<<"h">>)>> >>)
         model == PyObject(<< <<"__class__", PyStr(<<"Query">>)>>, <<"q", PyStr(<<"x">>)>> >>)
     IN  \E args \in {<<>>, <<PyStr(<<"x">>)>>, <<PyStr(BOOM)>>, <<model>>,
                      <<PyStr(<<"x">>), traced>>, <<plain>>, <<tagged, traced>>},
            kwargs \in {<<>>, << <<"request", traced>> >>, << <<"request", tagged>> >>,
                        << <<"request", plain>> >>, << <<"request", model>> >>,
                        << <<"session_id", PyStr(KW_SESSION_ID)>> >>} :
           AfterCall(py_call(Run(context, association_properties), binding.value,
                             args, kwargs),
                     args, kwargs)

ObserveSpec == DecoratorInit /\ [][DecorateObserve \/ CallObserved]_vars

\* ------------------------------------------------------------------------
\* extract_session_id(**kwargs) called on its own
\* ------------------------------------------------------------------------
\* The members a baggage header is made of: a key, "=" and a value (or a key
\* alone), with or without blanks around the key and the value.  The keys are
\* the session key, the session key with a capital S, and another key; the
\* values are "42", "", "a=b" and "V;p=x".
BaggageMembers ==
  [k : {HEADER_INCOMING_SESSION_ID,
        [HEADER_INCOMING_SESSION_ID EXCEPT ![1] = "S"],
        <<"o","t","h","e","r">>},
   blanks : BOOLEAN, eq : {TRUE},
   v : {<<"4","2">>, <<>>, <<"a","=","b">>, <<"V",";","p","=","x">>}]
  \cup [k : {HEADER_INCOMING_SESSION_ID, <<"o","t","h","e","r">>},
        blanks : BOOLEAN, eq : {FALSE}, v : {<<>>}]

\* The header's text: the members joined by ","
RECURSIVE baggage_text(_)
baggage_text(members) ==
  IF members = <<>> THEN <<>>
  ELSE LET m == members[1]
           b == IF m.blanks THEN <<" ">> ELSE <<>>
       IN  b \o m.k \o b \o (IF m.eq THEN <<"=">> \o b \o m.v \o b ELSE <<>>)
             \o (IF Len(members) = 1 THEN <<>> ELSE <<",">> \o baggage_text(Tail(members)))

\* extract_session_id is about to be called: with or without a session_id
\* keyword ("" or "s1"), and a baggage header of up to two members in
\* kwargs['headers'] or in the headers of kwargs['request'].
SessionInit ==
  /\ os_environ = <<>>
  /\ builtins = [S2_OWNED_APP |-> FALSE, FORCE_CONTENT_TRACING |-> FALSE]
  /\ fs_dirs = {}
  /\ heap = <<>>
  /\ _pulse_instance = 0
  /\ last = NoCall
  /\ fs_files = <<>>
  /\ jsonl = [made |-> FALSE]
  /\ sink = [op |-> "none", n |-> 0]
  /\ threads = <<>>
  /\ binding = Undecorated
  /\ context = <<>>
  /\ association_properties = <<>>
  /\ \E members \in {<<>>} \cup {<<m>> : m \in BaggageMembers}
                     \cup {<<m, n>> : m \in BaggageMembers, n \in BaggageMembers},
        session_id \in {<<>>, << <<"session_id", PyStr(<<>>)>> >>,
                        << <<"session_id", PyStr(KW_SESSION_ID)>> >>},
        in_request \in BOOLEAN :
       call = [op |-> "none", members |-> members, args |-> <<>>,
               kwargs |-> session_id \o
                 (IF in_request
                    THEN << <<"request", PyObject(<< <<"headers",
                              PyDict(<< <<"baggage", PyStr(baggage_text(members))>> >>)>> >>)>> >>
                    ELSE << <<"headers",
                              PyDict(<< <<"baggage", PyStr(baggage_text(members))>> >>)>> >>),
               val |-> PyNone]

\* session_id = extract_session_id(**kwargs)
ExtractSessionId ==
  /\ call.op = "none"
  /\ call' = [call EXCEPT !.op = "extract_session_id",
                          !.val = extract_session_id(call.kwargs)]
  /\ UNCHANGED <<context, association_properties, binding, pulse_vars>>

SessionSpec == SessionInit /\ [][ExtractSessionId]_vars

\* ------------------------------------------------------------------------
\* src/pulse_otel/util.py: the functions of the environment, one call each
\* ------------------------------------------------------------------------
\* The inputs of one call.  Either the eleven variables of
\* DEFAULT_ENV_VARIABLES are each unset or set (the i-th one to "v" and the
\* i-th hexadecimal digit, or all of them to ""), or HTTP_FORWARDEDHOST is
\* unset or one of the hosts, or a project id is given, or a dict of at most
\* MaxKeys keys (the i-th one with the value "i") is to be formatted.
MaxKeys == 3

UtilInit ==
  /\ builtins = [S2_OWNED_APP |-> FALSE, FORCE_CONTENT_TRACING |-> FALSE]
  /\ fs_dirs = {}
  /\ heap = <<>>
  /\ _pulse_instance = 0
  /\ last = NoCall
  /\ fs_files = <<>>
  /\ jsonl = [made |-> FALSE]
  /\ sink = [op |-> "none", n |-> 0]
  /\ threads = <<>>
  /\ binding = Undecorated
  /\ context = <<>>
  /\ association_properties = <<>>
  /\ LET HEX == <<"1","2","3","4","5","6","7","8","9","a","b">>
         hosts == {<<>>, <<"n","o","v","a","-","g","a","t","e","w","a","y",".","c","1",".","e","x",".","c","o","m">>, <<"n","o","v","a","-","g","a","t","e","w","a","y","-","s","t","g",".","c","2",".","e","x",".","c","o","m">>, <<"n","o","v","a","-","g","a","t","e","w","a","y">>, <<"n","o","v","a","-","g","a","t","e","w","a","y","-","s","t","g">>, <<"n","o","v","a","-","g","a","t","e","w","a","y",".",".","c","o","m">>, <<"o","t","h","e","r",".","c","1",".","e","x",".","c","o","m">>, <<"i","n","v","a","l","i","d","h","o","s","t">>, <<"n","o","v","a","-","g","a","t","e","w","a","y","-","p","r","o","d",".","c","1",".","c","o","m">>, <<"n","o","v","a","-","g","a","t","e","w","a","y",".","c","3">>}
         keys == {ENV_SINGLESTOREDB_APP_ID, ENV_HOSTNAME, <<"s","i","n","g","l","e","s","t","o","r","e","_","h","o","s","t","n","a","m","e">>,
                  <<"M","Y","_","S","I","N","G","L","E","S","T","O","R","E","D","B","_","A","P","P","_","I","D","_","2">>, <<"H","O","S","T","N","A","M","E","_","S","I","N","G","L","E","S","T","O","R","E","D","B","_","P","R","O","J","E","C","T">>, <<"C","u","s","t","o","m","_","K","e","y">>, <<"c","u","s","t","o","m",".","k","e","y">>, <<"M","Y","_","H","O","S","T","N","A","M","E">>}
         idle == [op |-> "none", project_id |-> None, env_variables |-> <<>>, val |-> None]
     IN  \/ /\ call = idle
            /\ \E set \in SUBSET (1..Len(DEFAULT_ENV_VARIABLES)) :
                 os_environ = SelectSeq([i \in 1..Len(DEFAULT_ENV_VARIABLES) |->
                                           <<DEFAULT_ENV_VARIABLES[i][1], <<"v", HEX[i]>>>>],
                                        LAMBDA kv : \E i \in set : kv[2] = <<"v", HEX[i]>>)
         \/ /\ call = idle
            /\ os_environ = [i \in 1..Len(DEFAULT_ENV_VARIABLES) |->
                               <<DEFAULT_ENV_VARIABLES[i][1], <<>>>>]
         \/ /\ call = idle
            /\ \E host \in hosts : os_environ = << <<ENV_HTTP_FORWARDEDHOST, host>> >>
         \/ /\ os_environ = <<>>
            /\ \E project_id \in {None, <<>>, <<"p","1","2","3">>, <<"{","P","R","O","J","E","C","T","I","D","_","P","L","A","C","E","H","O","L","D","E","R","}">>, <<"a",".","b","-","c">>} :
                 call = [idle EXCEPT !.project_id = project_id]
         \/ /\ os_environ = <<>>
            /\ \E n \in 1..MaxKeys :
                 \E ks \in {f \in [1..n -> keys] : \A i, j \in 1..n : f[i] = f[j] => i = j} :
                   call = [idle EXCEPT !.env_variables = [i \in 1..n |-> <<ks[i], <<HEX[i]>>>>]]

\* One call of a function of util.py on the inputs, with what it gives back
UtilCall(op, val) ==
  /\ call.op = "none"
  /\ call' = [call EXCEPT !.op = op, !.val = val]
  /\ UNCHANGED <<context, association_properties, binding, pulse_vars>>

UtilSpec ==
  UtilInit /\ [][\/ UtilCall("get_environ_vars", get_environ_vars(os_environ))
                 \/ UtilCall("format_env_variables",
                             format_env_variables(call.env_variables))
                 \/ UtilCall("form_otel_collector_endpoint",
                             form_otel_collector_endpoint(call.project_id))
                 \/ UtilCall("get_internal_collector_endpoint",
                             get_internal_collector_endpoint(os_environ))]_vars

\* ------------------------------------------------------------------------
\* src/pulse_otel/main.py: the file exporters
\* ------------------------------------------------------------------------
\* The longest batch handed to export, and the calls made on exporters.
MaxBatch == 2
MaxSinkCalls == 3

\* to_json without its indent: every document on one line
to_json_one_line(key, value, indent) ==
  <<"{", "\"">> \o key \o <<"\"", ":", " ", "\"">> \o value \o <<"\"", "}">>

\* span.to_json() and log_record.to_json(indent) of the OpenTelemetry SDK:
\* json.dumps(..., indent=indent), where indent is 4 unless it is given; the
\* document is cut down to one key.  With an indent the document takes
\* several lines, with None it takes one.
to_json(key, value, indent) ==
  LET member == <<"\"">> \o key \o <<"\"", ":", " ", "\"">> \o value \o <<"\"">>
  IN  IF indent.t = "None" THEN <<"{">> \o member \o <<"}">>
      ELSE <<"{", "\n">> \o [i \in 1..indent.i |-> " "] \o member \o <<"\n", "}">>

\* write_all that swallows the exception of a failing write
write_all_silently(content, texts, fail) ==
  LET stops == {i \in 1..Len(texts) : texts[i] = <<"TypeError">> \/ i = fail}
      n == IF stops = {} THEN Len(texts)
           ELSE (CHOOSE i \in stops : \A j \in stops : i <= j) - 1
      text[i \in 0..n] == IF i = 0 THEN content ELSE text[i - 1] \o texts[i] \o <<"\n">>
  IN  [content |-> text[n], written |-> n, exc |-> ""]

\* for ... : f.write(text + "\n") on a file holding `content`.  An item of
\* texts that is <<"TypeError">> stands for a text whose formatting raises;
\* the write numbered `fail` raises OSError (0: none does).  What was written
\* before the exception stays in the file.
write_all(content, texts, fail) ==
  LET stops == {i \in 1..Len(texts) : texts[i] = <<"TypeError">> \/ i = fail}
      n == IF stops = {} THEN Len(texts)
           ELSE (CHOOSE i \in stops : \A j \in stops : i <= j) - 1
      text[i \in 0..n] == IF i = 0 THEN content ELSE text[i - 1] \o texts[i] \o <<"\n">>
  IN  [content |-> text[n], written |-> n,
       exc |-> IF n = Len(texts) THEN ""
               ELSE IF texts[n + 1] = <<"TypeError">> THEN "TypeError" ELSE "OSError"]

\* CustomFileSpanExporter(file_name).export(spans), lines 442-446.  open()
\* raises when the directory of file_name does not exist.
CustomFileSpanExporter_export ==
  /\ sink.n < MaxSinkCalls
  /\ \E spans \in UNION {[1..n -> {[name |-> <<"a">>], [name |-> <<"b">>]}] : n \in 0..MaxBatch},
        fail \in 0..MaxBatch :
       LET opened == os_path_dirname(LIVE_LOGS_PATH) \in fs_dirs
           done == write_all(py_get(fs_files, LIVE_LOGS_PATH, <<>>),
                             [i \in 1..Len(spans) |->
                                to_json(<<"n","a","m","e">>, spans[i].name,
                                        [t |-> "int", i |-> 4])],
                             fail)
       IN  /\ fs_files' = IF opened THEN dict_set(fs_files, LIVE_LOGS_PATH, done.content)
                          ELSE fs_files
           /\ sink' = [op |-> "CustomFileSpanExporter.export", n |-> sink.n + 1,
                       batch |-> spans, fresh |-> ~dict_has(fs_files, LIVE_LOGS_PATH),
                       exc |-> IF opened THEN done.exc ELSE "FileNotFoundError",
                       result |-> IF opened /\ done.exc = "" THEN "SUCCESS" ELSE "none"]
  /\ UNCHANGED <<os_environ, builtins, fs_dirs, heap, _pulse_instance, last, jsonl,
                 threads, decorator_vars>>

\* FileLogExporter(file_name).export(batch), lines 453-465.  An int is kept
\* as its hexadecimal digits, most significant first and without leading
\* zeros: a span id is below 2^64 (16 digits at most), a trace id below 2^128
\* (32 digits at most).  format(x, '016x') pads x with zeros on the left up to
\* the width 16, cuts nothing off a longer x, and raises TypeError when x is
\* None.
FileLogExporter_export ==
  /\ sink.n < MaxSinkCalls
  /\ \E batch \in UNION {[1..n -> {[body |-> <<"m">>, span_id |-> PyNone,
                                     trace_id |-> [t |-> "int", hex |-> <<"1","0","0","0">>]],
                                    [body |-> <<"m">>,
                                     span_id |-> [t |-> "int", hex |-> <<"f","f">>],
                                     trace_id |-> [t |-> "int", hex |-> <<"1","0","0","0">>]],
                                    [body |-> <<"m">>,
                                     span_id |-> [t |-> "int", hex |-> [i \in 1..16 |-> "f"]],
                                     trace_id |-> [t |-> "int",
                                                   hex |-> <<"1">> \o [i \in 1..16 |-> "0"]]]}] :
                         n \in 0..MaxBatch},
        fail \in 0..MaxBatch :
       LET format_016x(x) ==
             IF Len(x.hex) >= 16 THEN x.hex
             ELSE [i \in 1..16 - Len(x.hex) |-> "0"] \o x.hex
           formatted_log(r) ==
             IF r.span_id.t # "int" \/ r.trace_id.t # "int" THEN <<"TypeError">>
             ELSE <<"T","i","m","e","s","t","a","m","p",":"," ","1",","," ","S","e","v","e","r","i","t","y",":"," ","I","N","F","O",","," ","M","e","s","s","a","g","e",":"," ">> \o r.body \o <<","," ","S","p","a","n"," ","I","D"," ",":"," ">> \o format_016x(r.span_id)
                    \o <<","," ","T","r","a","c","e"," ","I","D"," ",":"," ">> \o format_016x(r.trace_id)
           opened == os_path_dirname(LIVE_LOGS_PATH) \in fs_dirs
           done == write_all(py_get(fs_files, LIVE_LOGS_PATH, <<>>),
                             [i \in 1..Len(batch) |-> formatted_log(batch[i])], fail)
       IN  /\ fs_files' = IF opened THEN dict_set(fs_files, LIVE_LOGS_PATH, done.content)
                          ELSE fs_files
           /\ sink' = [op |-> "FileLogExporter.export", n |-> sink.n + 1,
                       batch |-> batch, fresh |-> ~dict_has(fs_files, LIVE_LOGS_PATH),
                       exc |-> IF opened THEN done.exc ELSE "FileNotFoundError",
                       result |-> IF opened /\ done.exc = "" THEN "SUCCESS" ELSE "none"]
  /\ UNCHANGED <<os_environ, builtins, fs_dirs, heap, _pulse_instance, last, jsonl,
                 threads, decorator_vars>>

\* JSONLFileLogExporter(file_path), lines 502-508
JSONLFileLogExporter__init__ ==
  /\ ~jsonl.made
  /\ jsonl' = [made |-> TRUE, file_path |-> LIVE_LOGS_PATH,
               f |-> IF os_path_dirname(LIVE_LOGS_PATH) \in fs_dirs THEN "open" ELSE "None",
               open_calls |-> 1, close_calls |-> 0]
  /\ fs_files' = IF os_path_dirname(LIVE_LOGS_PATH) \in fs_dirs
                    /\ ~dict_has(fs_files, LIVE_LOGS_PATH)
                   THEN dict_set(fs_files, LIVE_LOGS_PATH, <<>>) ELSE fs_files
  /\ sink' = [op |-> "JSONLFileLogExporter.__init__", n |-> sink.n, exc |-> "",
              logged |-> os_path_dirname(LIVE_LOGS_PATH) \notin fs_dirs]
  /\ UNCHANGED <<os_environ, builtins, fs_dirs, heap, _pulse_instance, last,
                 threads, decorator_vars>>

\* JSONLFileLogExporter.export(batch), lines 510-520.  A write on the closed
\* file raises ValueError, which the except clause catches like any other.
JSONLFileLogExporter_export ==
  /\ jsonl.made
  /\ sink.n < MaxSinkCalls
  /\ \E batch \in UNION {[1..n -> [body : {<<"m">>, <<"n">>}]] : n \in 0..MaxBatch},
        fail \in 0..MaxBatch :
       LET done == write_all(py_get(fs_files, jsonl.file_path, <<>>),
                             [i \in 1..Len(batch) |->
                                to_json(<<"b","o","d","y">>, batch[i].body, PyNone)],
                             IF jsonl.f = "closed" THEN 1 ELSE fail)
       IN  /\ fs_files' = IF jsonl.f = "open"
                            THEN dict_set(fs_files, jsonl.file_path, done.content)
                            ELSE fs_files
           /\ sink' = [op |-> "JSONLFileLogExporter.export", n |-> sink.n + 1,
                       batch |-> batch, exc |-> "",
                       written |-> IF jsonl.f = "open" THEN done.written ELSE 0,
                       result |-> IF jsonl.f # "None" /\ done.exc = ""
                                    THEN "SUCCESS" ELSE "FAILURE"]
  /\ UNCHANGED <<os_environ, builtins, fs_dirs, heap, _pulse_instance, last, jsonl,
                 threads, decorator_vars>>

\* shutdown that closes the handle only while it is open
JSONLFileLogExporter_shutdown_once ==
  /\ jsonl.made
  /\ sink.n < MaxSinkCalls
  /\ jsonl' = IF jsonl.f # "open" THEN jsonl
              ELSE [jsonl EXCEPT !.f = "closed", !.close_calls = @ + 1]
  /\ sink' = [op |-> "JSONLFileLogExporter.shutdown", n |-> sink.n + 1, exc |-> ""]
  /\ UNCHANGED <<os_environ, builtins, fs_dirs, heap, _pulse_instance, last, fs_files,
                 threads, decorator_vars>>

\* JSONLFileLogExporter.shutdown(), lines 522-524: a file object is truthy
\* whether it is open or closed.
JSONLFileLogExporter_shutdown ==
  /\ jsonl.made
  /\ sink.n < MaxSinkCalls
  /\ jsonl' = IF jsonl.f = "None" THEN jsonl
              ELSE [jsonl EXCEPT !.f = "closed", !.close_calls = @ + 1]
  /\ sink' = [op |-> "JSONLFileLogExporter.shutdown", n |-> sink.n + 1, exc |-> ""]
  /\ UNCHANGED <<os_environ, builtins, fs_dirs, heap, _pulse_instance, last, fs_files,
                 threads, decorator_vars>>

\* No exporter has been used yet; the directory of the file exists or not.
ExporterInit ==
  /\ os_environ = <<>>
  /\ builtins = [S2_OWNED_APP |-> FALSE, FORCE_CONTENT_TRACING |-> FALSE]
  /\ fs_dirs \in {{}, {LIVE_LOGS_DIR}}
  /\ heap = <<>>
  /\ _pulse_instance = 0
  /\ last = NoCall
  /\ fs_files = <<>>
  /\ jsonl = [made |-> FALSE]
  /\ sink = [op |-> "none", n |-> 0]
  /\ threads = <<>>
  /\ DecoratorIdle

ExporterSpec ==
  ExporterInit /\ [][\/ CustomFileSpanExporter_export
                     \/ FileLogExporter_export
                     \/ JSONLFileLogExporter__init__
                     \/ JSONLFileLogExporter_export
                     \/ JSONLFileLogExporter_shutdown]_vars

\* ------------------------------------------------------------------------
\* Properties of Pulse.__init__ (PulseSpec)
\* ------------------------------------------------------------------------
Range(seq) == {seq[i] : i \in 1..Len(seq)}

\* C1: once a construction has completed, a later construction runs no
\* initialization side effect (no collaborator is called, the environment is
\* not written), leaves _pulse_instance on the first instance, and ends with
\* the new object's __dict__ equal to the first instance's.
C1_ReuseFirstInstance ==
  [][(_pulse_instance # 0 /\ Len(heap') = Len(heap) + 1) =>
       /\ _pulse_instance' = _pulse_instance
       /\ _pulse_instance' = 1
       /\ os_environ' = os_environ
       /\ last'.op = "reuse"
       /\ last'.effects = <<>>
       /\ heap'[Len(heap')] = heap[1]
       /\ \A i \in 1..Len(heap) : heap'[i] = heap[i]]_pulse_vars

C1_Witness ==
  /\ last.op = "reuse"
  /\ Len(heap) = 3
  /\ heap[1] # <<>>
  /\ heap[3] = heap[1]
  /\ _pulse_instance = 1

\* C2: Pulse.__init__ never raises: whatever the flags and the environment,
\* and whichever collaborator fails, the exception is caught and logged, the
\* constructor returns normally and has set _pulse_instance.
C2_NeverRaises ==
  last.op # "none" => (~last.raised /\ _pulse_instance # 0)

C2_Witness ==
  /\ last.op = "init"
  /\ last.logged = "Traceloop.init"
  /\ ~last.raised
  /\ _pulse_instance = 1

\* The branch the claim names for each combination of flags, guard by guard.
C3_Guard(args, n) ==
  CASE n = 1 -> args.write_to_traceloop /\ truthy(args.api_key)
    [] n = 2 -> args.write_to_file /\ ~args.without_traceloop
    [] n = 3 -> args.only_live_logs
    [] n = 4 -> args.without_traceloop /\ args.otel_collector_endpoint # None
    [] OTHER -> TRUE

C3_FirstGuard(args) ==
  CHOOSE n \in 1..5 : C3_Guard(args, n) /\ \A m \in 1..(n - 1) : ~C3_Guard(args, m)

\* The collaborators each branch may call.
C3_Allowed(n) ==
  {"get_environ_vars"} \cup
  CASE n = 1 -> {"init_log_provider", "FileLogExporter", "JSONLFileLogExporter",
                 "set_logger_provider", "LoggingHandler",
                 "set_global_content_tracing", "Traceloop.init"}
    [] n = 2 -> {"init_log_provider", "FileLogExporter", "JSONLFileLogExporter",
                 "set_logger_provider", "LoggingHandler",
                 "set_global_content_tracing", "CustomFileSpanExporter", "Traceloop.init"}
    [] n = 3 -> {"JSONLFileLogExporter", "set_logger_provider", "LoggingHandler"}
    [] n = 4 -> {"TracerProvider", "OTLPSpanExporter", "CustomFileSpanExporter",
                 "BatchSpanProcessor", "set_tracer_provider",
                 "LoggingInstrumentor", "RequestsInstrumentor"}
    [] OTHER -> {"set_span_attribute_size_limit", "set_global_content_tracing",
                 "get_internal_collector_endpoint", "form_otel_collector_endpoint",
                 "set_logger_provider", "JSONLFileLogExporter", "OTLPLogExporter",
                 "LoggingHandler", "OTLPSpanExporter", "Traceloop.init"}

\* The sinks a branch that ran to its end has configured.
C3_Sinks(c, n) ==
  CASE n = 1 -> c.span_exporter = "traceloop" /\ "file" \in c.log_exporters
    [] n = 2 -> c.span_exporter = "file" /\ "file" \in c.log_exporters
    [] n = 3 -> /\ c.span_exporter = "none"
                /\ c.log_exporters \subseteq {"jsonl"}
                /\ "Traceloop.init" \notin Range(c.effects)
    [] n = 4 -> /\ c.span_exporter = (IF c.args.write_to_file THEN "file" ELSE "otlp")
                /\ c.log_exporters = {}
                /\ "Traceloop.init" \notin Range(c.effects)
    [] OTHER -> c.span_exporter = "otlp" /\ "otlp" \in c.log_exporters

\* C3: a first construction takes exactly one configuration path, the first
\* whose guard holds in the order (1) write_to_traceloop and api_key,
\* (2) write_to_file and not without_traceloop, (3) only_live_logs,
\* (4) without_traceloop and an endpoint given, (5) otherwise; it calls only
\* that path's collaborators and, when it ends without error, has that
\* path's sinks.
C3_OnePathInOrder ==
  (last.op = "init" /\ last.logged # "get_environ_vars") =>
    /\ last.path = C3_FirstGuard(last.args)
    /\ Range(last.effects) \subseteq C3_Allowed(last.path)
    /\ last.logged = "" => C3_Sinks(last, last.path)

C3_Witness ==
  /\ last.op = "init"
  /\ last.logged = ""
  /\ last.args.write_to_file /\ ~last.args.without_traceloop
  /\ last.args.only_live_logs
  /\ ~last.args.write_to_traceloop
  /\ last.path = 2
  /\ last.span_exporter = "file"

\* C4: with without_traceloop=True, Traceloop.init is called on no path,
\* whatever the other flags are.
C4_NoTraceloopInit ==
  (last.op = "init" /\ last.args.without_traceloop) =>
    "Traceloop.init" \notin Range(last.effects)

C6_EveryPathWritesContentFlag ==
  (last.op = "init" /\ last.logged = "") =>
    "set_global_content_tracing" \in Range(last.effects)

\* ------------------------------------------------------------------------
\* Properties of the content-tracing toggle and the decorators (DecoratorSpec)
\* ------------------------------------------------------------------------
\* C7: after any sequence of calls of Pulse.enable_content_tracing, the
\* environment variable TRACELOOP_CONTENT_TRACING is 'true' if the last
\* call's argument was True or omitted and 'false' if it was False.
C7_EnvFollowsLastCall ==
  call.op = "enable_content_tracing" =>
    os_getenv(os_environ, ENV_TRACELOOP_CONTENT_TRACING, None) =
      (IF call.args = <<>> \/ call.args = <<PyBool(TRUE)>> THEN STR_true ELSE STR_false)

\* The decorated name is bound to a wrapper around the user's function.
IsWrapper(v) ==
  /\ v.t = "closure"
  /\ v.code \in {"pulse_tool.decorator.wrapper", "pulse_tool.wrapper.inner_wrapper",
                 "pulse_agent.decorator.wrapper"}
Positions(trace, evs) == {i \in 1..Len(trace) : trace[i].ev \in evs}

C9_ToolNameAsGiven ==
  binding.decorator = "pulse_tool" =>
    /\ IsWrapper(binding.value)
    /\ binding.value.func = UserFunction
    /\ binding.value.name =
         (IF binding.name = PyNone THEN PyStr(UserFunction.name) ELSE binding.name)

\* C9 amended: bare @pulse_tool registers the function's __name__,
\* @pulse_tool(name=N) registers N when N is not empty and the function's
\* __name__ when it is, and @pulse_tool("N") registers N; in every shape the
\* decorated name is a wrapper around the function.
C9_ToolNameUnlessEmpty ==
  binding.decorator = "pulse_tool" =>
    /\ IsWrapper(binding.value)
    /\ binding.value.func = UserFunction
    /\ binding.value.name =
         (CASE binding.shape = "bare" -> PyStr(UserFunction.name)
            [] binding.shape = "keyword" ->
                 IF binding.name = PyNone \/ binding.name = PyStr(<<>>)
                   THEN PyStr(UserFunction.name) ELSE binding.name
            [] OTHER -> binding.name)

C9_Witness ==
  /\ binding.decorator = "pulse_tool"
  /\ binding.shape = "keyword"
  /\ binding.name = PyStr(GIVEN_NAME)
  /\ binding.value.name = PyStr(GIVEN_NAME)
  /\ call.op = "call"
  /\ call.trace # <<>>
  /\ call.trace[Len(call.trace)] = [ev |-> "tool", arg |-> PyStr(GIVEN_NAME)]

\* C10 as stated: in each of the three shapes (bare, keyword name=,
\* positional name) pulse_agent yields a wrapper that, called with the
\* function's arguments, runs the function and returns its result.
C10_AgentThreeShapes ==
  (call.op = "call" /\ binding.decorator = "pulse_agent") =>
    /\ IsWrapper(binding.value)
    /\ Cardinality(Positions(call.trace, {"agent"})) = 1
    /\ call.exc = call_function(UserFunction, call.args, call.kwargs).exc
    /\ call.val = call_function(UserFunction, call.args, call.kwargs).val

\* C10 amended: with a keyword name= or a positional name pulse_agent yields a
\* wrapper that, called with the function's arguments, runs the function once
\* and returns its result; used as a bare decorator it yields the decorator
\* itself, still awaiting a function, and a call of it never runs the function.
C10_AgentTwoShapes ==
  (call.op = "call" /\ binding.decorator = "pulse_agent") =>
    IF binding.shape \in {"keyword", "positional"}
      THEN /\ IsWrapper(binding.value)
           /\ binding.value.func = UserFunction
           /\ Cardinality(Positions(call.trace, {"agent"})) = 1
           /\ call.exc = call_function(UserFunction, call.args, call.kwargs).exc
           /\ call.val = call_function(UserFunction, call.args, call.kwargs).val
      ELSE /\ binding.value.code = "pulse_agent.decorator"
           /\ binding.value.name = UserFunction
           /\ call.trace = <<>>
           /\ call.val.t # "result"

C10_Witness ==
  /\ call.op = "call"
  /\ binding.decorator = "pulse_agent"
  /\ binding.shape = "keyword"
  /\ call.args = <<PyStr(<<"x">>)>>
  /\ call.exc = ""
  /\ call.val = [t |-> "result", of |-> USER_FUNCTION_NAME, args |-> call.args,
                 kwargs |-> call.kwargs]

\* ------------------------------------------------------------------------
\* Properties of the session id of a call
\* ------------------------------------------------------------------------
\* The sources of a session id in the keyword arguments of a call.
HasKeyword(kwargs) == dict_has(kwargs, "session_id")
HasBaggage(kwargs) == dict_has(kwargs, "headers")
HasBody(kwargs) == dict_has(kwargs, "body")
AgentCall ==
  /\ call.op = "call"
  /\ binding.decorator = "pulse_agent"
  /\ binding.shape \in {"keyword", "positional"}

\* C11: on each call of a pulse_agent-wrapped function with a session id
\* available, session.id is the explicit session_id keyword if there is one,
\* else the value of the baggage key singlestore-session-id if there is one,
\* else the session_id of the body; Traceloop.set_association_properties is
\* called once with it, before the wrapped function is invoked.
C11_SessionIdByPriority ==
  (AgentCall /\ (HasKeyword(call.kwargs) \/ HasBaggage(call.kwargs) \/ HasBody(call.kwargs))) =>
    LET expected == IF HasKeyword(call.kwargs) THEN PyStr(KW_SESSION_ID)
                    ELSE IF HasBaggage(call.kwargs) THEN PyStr(<<"4", "2">>)
                    ELSE PyStr(BODY_SESSION_ID)
        sets == Positions(call.trace, {"Traceloop.set_association_properties"})
    IN  /\ association_properties = << <<SESSION_ID, expected>> >>
        /\ Cardinality(sets) = 1
        /\ \A i \in sets :
             /\ call.trace[i].arg = PyDict(<< <<SESSION_ID, expected>> >>)
             /\ \A j \in Positions(call.trace, {"agent"}) : i < j
        /\ Cardinality(Positions(call.trace, {"agent"})) = 1

C11_Witness ==
  /\ AgentCall
  /\ ~HasKeyword(call.kwargs) /\ HasBaggage(call.kwargs) /\ HasBody(call.kwargs)
  /\ association_properties = << <<SESSION_ID, PyStr(<<"4", "2">>)>> >>
  /\ Len(call.trace) = 4
  /\ call.trace[2].ev = "Traceloop.set_association_properties"
  /\ call.trace[4].ev = "agent"
  /\ call.val.t = "result"

DIGITS == {"0", "1", "2", "3", "4", "5", "6", "7", "8", "9"}

\* C12 as stated: a call of a pulse_agent-wrapped function with no session id
\* anywhere attaches a generated session.id of exactly 16 decimal digits.
C12_FallbackSixteenDigits ==
  (AgentCall /\ call.kwargs = <<>>) =>
    /\ dict_has(association_properties, SESSION_ID)
    /\ dict_get(association_properties, SESSION_ID).t = "str"
    /\ Len(dict_get(association_properties, SESSION_ID).s) = 16
    /\ \A i \in 1..16 : dict_get(association_properties, SESSION_ID).s[i] \in DIGITS

\* C12 amended: a call of a pulse_agent-wrapped function with no session id
\* anywhere generates none: Traceloop.set_association_properties is not
\* called, the association properties stay as they were before the call, and
\* the wrapped function still runs once.
C12_NoSessionIdNoneAttached ==
  [][(AgentCall' /\ call'.kwargs = <<>>) =>
       /\ association_properties' = association_properties
       /\ Positions(call'.trace, {"Traceloop.set_association_properties"}) = {}
       /\ Cardinality(Positions(call'.trace, {"agent"})) = 1]_vars

C12_Witness ==
  /\ AgentCall
  /\ call.kwargs = <<>>
  /\ call.val.t = "result"
  /\ Len(call.trace) = 3
  /\ association_properties = <<>>

\* ------------------------------------------------------------------------
\* Properties of extract_session_id (SessionSpec)
\* ------------------------------------------------------------------------
\* The members whose key is the session key exactly, and the value of the
\* first of them.
Matching(members) ==
  {i \in 1..Len(members) : members[i].eq /\ members[i].k = HEADER_INCOMING_SESSION_ID}
FirstValue(members) ==
  IF Matching(members) = {} THEN PyNone
  ELSE PyStr(members[CHOOSE i \in Matching(members) : \A j \in Matching(members) : i <= j].v)
Extracted == call.op = "extract_session_id"

\* C13 as stated: if the keyword arguments contain a session_id key, its value
\* is returned verbatim, whatever the value (the empty string included) and
\* whatever request, headers or baggage are present.
C13_KeywordVerbatimAlways ==
  (Extracted /\ dict_has(call.kwargs, "session_id")) =>
    call.val = dict_get(call.kwargs, "session_id")

\* C13 amended: a session_id keyword with a non-empty value is returned
\* verbatim whatever request, headers or baggage are present; an empty one is
\* returned only when the baggage header has no member for the session key,
\* and otherwise the value of the first such member is returned.
C13_KeywordVerbatimUnlessEmpty ==
  (Extracted /\ dict_has(call.kwargs, "session_id")) =>
    call.val = (IF dict_get(call.kwargs, "session_id").s # <<>> \/ Matching(call.members) = {}
                  THEN dict_get(call.kwargs, "session_id")
                  ELSE FirstValue(call.members))

C13_Witness ==
  /\ Extracted
  /\ dict_has(call.kwargs, "session_id")
  /\ dict_has(call.kwargs, "request")
  /\ Matching(call.members) = {1, 2}
  /\ call.val = PyStr(KW_SESSION_ID)

\* C14: with no session_id keyword, extract_session_id returns the trimmed
\* value of the first comma-separated member of the baggage header whose
\* trimmed key (the text before the first "=") is singlestore-session-id
\* exactly, case included; members without "=" are passed over and the scan
\* goes on; None is returned when no member matches.
C14_FirstMatchingMember ==
  (Extracted /\ ~dict_has(call.kwargs, "session_id")) =>
    call.val = FirstValue(call.members)

C14_Witness ==
  /\ Extracted
  /\ ~dict_has(call.kwargs, "session_id")
  /\ Len(call.members) = 2
  /\ ~call.members[1].eq
  /\ call.members[1].k = HEADER_INCOMING_SESSION_ID
  /\ call.members[2].blanks
  /\ call.members[2].v = <<"a", "=", "b">>
  /\ call.val = PyStr(<<"a", "=", "b">>)

\* C15: the properties of a baggage member are ignored: for the member
\* singlestore-session-id=V;p=x extract_session_id returns V alone.
C15_PropertiesIgnored ==
  (/\ Extracted
   /\ ~dict_has(call.kwargs, "session_id")
   /\ FirstValue(call.members) = PyStr(<<"V", ";", "p", "=", "x">>)) =>
    call.val = PyStr(<<"V">>)

\* ------------------------------------------------------------------------
\* Properties of observe (ObserveSpec)
\* ------------------------------------------------------------------------
\* The request observe finds in a call, if any: kwargs['request'], else the
\* first positional argument of class Request.
RequestOf(args, kwargs) ==
  IF dict_has(kwargs, "request") THEN <<dict_get(kwargs, "request")>>
  ELSE SelectSeq(args, LAMBDA v : v.t = "object"
                                  /\ dict_get(v.attrs, "__class__") = PyStr(<<"Request">>))

\* C16: each call of an observe-wrapped function invokes the agent-decorated
\* function exactly once and returns its result (or raises what it raises):
\* inside a span named by the decorator, of kind SERVER and started with the
\* extracted context, when a request is found and the context extracted from
\* its headers is not empty; otherwise with no span started by observe.
C16_ObserveInvokesOnce ==
  (call.op = "call" /\ binding.decorator = "observe") =>
    LET spans == Positions(call.trace, {"tracer.start_as_current_span"})
        found == RequestOf(call.args, call.kwargs)
        ctx == IF found = <<>> \/ ~dict_has(found[1].attrs, "headers") THEN <<>>
               ELSE extract(dict_get(found[1].attrs, "headers"))
    IN  /\ Cardinality(Positions(call.trace, {"agent"})) = 1
        /\ call.exc = call_function(UserFunction, call.args, call.kwargs).exc
        /\ call.val = call_function(UserFunction, call.args, call.kwargs).val
        /\ IF ctx = <<>> THEN spans = {}
           ELSE /\ Cardinality(spans) = 1
                /\ \A i \in spans :
                     /\ call.trace[i].arg = binding.name
                     /\ call.trace[i].kind = "SERVER"
                     /\ call.trace[i].context = ctx
                     /\ \A j \in Positions(call.trace, {"agent"}) : i < j

\* ------------------------------------------------------------------------
\* Properties of the file exporters (ExporterSpec)
\* ------------------------------------------------------------------------
\* The text of the exporters' file ("" when there is none)
FileText == py_get(fs_files, LIVE_LOGS_PATH, <<>>)

\* The k-th smallest member of a set of numbers
Nth(S, k) == CHOOSE x \in S : Cardinality({y \in S : y < x}) = k - 1

\* The JSON documents of a text in which each document is followed by a line
\* break: a document ends at a closing brace that ends its line.
Documents(text) ==
  LET ends == {i \in 1..Len(text) - 1 : text[i] = "}" /\ text[i + 1] = "\n"}
  IN  [k \in 1..Cardinality(ends) |->
         SubSeq(text, IF k = 1 THEN 1 ELSE Nth(ends, k - 1) + 2, Nth(ends, k))]

\* The position after the text of the first k documents and their line breaks
RECURSIVE EndOf(_, _)
EndOf(docs, k) == IF k = 0 THEN 0 ELSE EndOf(docs, k - 1) + Len(docs[k]) + 1

\* One object from its opening to its closing brace that names the value
IsDocumentOf(doc, value) ==
  /\ Len(doc) >= 2
  /\ doc[1] = "{"
  /\ doc[Len(doc)] = "}"
  /\ \A i \in 2..Len(doc) - 1 : doc[i] \notin {"{", "}"}
  /\ \E i \in 1..Len(doc) - Len(value) - 1 :
       SubSeq(doc, i, i + Len(value) + 1) = <<"\"">> \o value \o <<"\"">>

\* A successful CustomFileSpanExporter.export on a path that did not exist
SpansExportedToFreshPath ==
  /\ sink.op = "CustomFileSpanExporter.export"
  /\ sink.fresh
  /\ sink.result = "SUCCESS"

C18_FileSinksNeverRaise ==
  sink.op \in {"CustomFileSpanExporter.export", "FileLogExporter.export"} =>
    /\ sink.exc = ""
    /\ sink.result \in {"SUCCESS", "FAILURE"}


\* A step of JSONLFileLogExporter.export that leaves every record of the
\* batch in the file: the text grows by one single-line document per record,
\* in batch order
AllWritten ==
  LET added == Documents(SubSeq(FileText', Len(FileText) + 1, Len(FileText')))
  IN  /\ Len(FileText') >= Len(FileText)
      /\ SubSeq(FileText', 1, Len(FileText)) = FileText
      /\ Len(added) = Len(sink'.batch)
      /\ EndOf(added, Len(added)) = Len(FileText') - Len(FileText)
      /\ \A k \in 1..Len(sink'.batch) :
           /\ IsDocumentOf(added[k], sink'.batch[k].body)
           /\ "\n" \notin Range(added[k])

\* What C19 says of the constructor and of an export that is not preceded by
\* a shutdown: neither raises; a failed open leaves f = None; export on
\* f = None returns FAILURE and writes nothing; SUCCESS is returned exactly
\* when every record was written.
FailsSoft ==
  /\ sink'.op = "JSONLFileLogExporter.__init__" =>
       /\ sink'.exc = ""
       /\ jsonl'.f = "None" <=> os_path_dirname(jsonl'.file_path) \notin fs_dirs
  /\ sink'.op = "JSONLFileLogExporter.export" /\ sink'.n = sink.n + 1 =>
       /\ sink'.exc = ""
       /\ sink'.result \in {"SUCCESS", "FAILURE"}
       /\ jsonl.f = "None" => sink'.result = "FAILURE" /\ fs_files' = fs_files
       /\ sink'.result = "SUCCESS" <=> jsonl.f # "None" /\ AllWritten

\* C19 (as stated): JSONLFileLogExporter fails soft in every state, and any
\* export called after shutdown returns FAILURE.
C19_AnyExportAfterShutdownFails ==
  [][/\ FailsSoft
     /\ sink'.op = "JSONLFileLogExporter.export" /\ sink'.n = sink.n + 1
          /\ jsonl.f = "closed" => sink'.result = "FAILURE"]_vars

\* C19 (amended): JSONLFileLogExporter fails soft in every state; an export
\* of a batch that is not empty called after shutdown returns FAILURE and
\* writes nothing, and an export of an empty batch after shutdown returns
\* SUCCESS.
C19_ExportAfterShutdownFailsUnlessEmpty ==
  [][/\ FailsSoft
     /\ sink'.op = "JSONLFileLogExporter.export" /\ sink'.n = sink.n + 1
          /\ jsonl.f = "closed" =>
            /\ fs_files' = fs_files
            /\ sink'.result = "FAILURE" <=> sink'.batch # <<>>]_vars

\* A batch of two records was exported after shutdown, and FAILURE returned.
C19_Witness ==
  /\ sink.op = "JSONLFileLogExporter.export"
  /\ jsonl.f = "closed"
  /\ Len(sink.batch) = 2
  /\ sink.result = "FAILURE"


\* A step that is a call of JSONLFileLogExporter.shutdown
ShutdownStep ==
  /\ sink'.op = "JSONLFileLogExporter.shutdown"
  /\ sink'.n = sink.n + 1

\* C20 (as stated): one JSONLFileLogExporter opens its file at most once and
\* closes the handle exactly once: the first shutdown closes it, and a later
\* shutdown does not close again.
C20_ClosedByFirstShutdownOnly ==
  jsonl.made =>
    /\ jsonl.open_calls <= 1
    /\ jsonl.close_calls <= 1
    /\ sink.op = "JSONLFileLogExporter.shutdown" => jsonl.close_calls = 1

\* C20 (amended): one JSONLFileLogExporter calls open once, in its
\* constructor, and never in export or shutdown.  The handle goes from open
\* to closed only in a shutdown and is never open again; every shutdown of
\* an exporter that has a handle calls close on it, the first one on the
\* open handle and each later one on the handle that is closed already; a
\* shutdown of an exporter whose open failed closes nothing.
C20_CloseCalledByEveryShutdown ==
  [][/\ jsonl'.made => jsonl'.open_calls = 1
     /\ jsonl.made /\ jsonl'.f # jsonl.f =>
          jsonl.f = "open" /\ jsonl'.f = "closed" /\ ShutdownStep
     /\ jsonl.made /\ ~ShutdownStep => jsonl'.close_calls = jsonl.close_calls
     /\ ShutdownStep =>
          IF jsonl.f = "None"
            THEN jsonl' = jsonl /\ jsonl.close_calls = 0
            ELSE /\ jsonl'.f = "closed"
                 /\ jsonl'.close_calls = jsonl.close_calls + 1]_vars

\* An exporter whose file opened was shut down twice.
C20_Witness ==
  /\ jsonl.made
  /\ jsonl.f = "closed"
  /\ jsonl.close_calls = 2
  /\ sink.op = "JSONLFileLogExporter.shutdown"


\* The lines that the latest FileLogExporter.export wrote: the last lines
\* of the file, one per record of the batch
WrittenLines ==
  LET lines == str_split(FileText, <<"\n">>)
  IN  SubSeq(lines, Len(lines) - Len(sink.batch), Len(lines) - 1)

\* The text of a line after the label, up to the next comma or to its end
Field(line, label) ==
  LET rest == SubSeq(line, str_find(line, label) + Len(label), Len(line))
      comma == str_find(rest, <<",">>)
  IN  IF comma = 0 THEN rest ELSE SubSeq(rest, 1, comma - 1)

IsSixteenHexDigits(field) ==
  /\ Len(field) = 16
  /\ \A k \in 1..16 :
       field[k] \in {"0","1","2","3","4","5","6","7","8","9","a","b","c","d","e","f"}

\* C21: in every line written by FileLogExporter.export the span id field
\* and the trace id field are each exactly 16 lowercase hexadecimal digits,
\* for every span id below 2^64 and every trace id below 2^128.
C21_SixteenHexDigits ==
  sink.op = "FileLogExporter.export" /\ sink.result = "SUCCESS" =>
    \A k \in 1..Len(sink.batch) :
      /\ IsSixteenHexDigits(Field(WrittenLines[k], <<"S","p","a","n"," ","I","D"," ",":"," ">>))
      /\ IsSixteenHexDigits(Field(WrittenLines[k], <<"T","r","a","c","e"," ","I","D"," ",":"," ">>))

\* ------------------------------------------------------------------------
\* Properties of the functions of util.py (UtilSpec)
\* ------------------------------------------------------------------------
\* The eleven variables of the table with their canonical names
CanonicalNames ==
  << <<ENV_SINGLESTOREDB_ORGANIZATION, ORGANIZATION>>,
     <<ENV_SINGLESTOREDB_PROJECT, PROJECT>>,
     <<ENV_HTTP_NOTEBOOKSSERVERID, SERVER_ID>>,
     <<ENV_HOSTNAME, HOSTNAME>>,
     <<ENV_SINGLESTOREDB_WORKLOAD_TYPE, WORKLOAD_TYPE>>,
     <<ENV_SINGLESTOREDB_APP_BASE_PATH, APP_BASE_PATH>>,
     <<ENV_SINGLESTOREDB_APP_BASE_URL, APP_BASE_URL>>,
     <<ENV_SINGLESTOREDB_APP_TYPE, APP_TYPE>>,
     <<ENV_SINGLESTOREDB_APP_ID, APP_ID>>,
     <<ENV_SINGLESTOREDB_APP_NAME, APP_NAME>>,
     <<ENV_SINGLESTOREDB_IS_AGENT, IS_AGENT>> >>

\* C22: for every assignment of the eleven table variables (each set or
\* unset) get_environ_vars returns a mapping whose keys are exactly the
\* eleven canonical names, all lowercase and dot-separated, each holding the
\* variable's value when it is set and its table default when it is not.
C22_ElevenCanonicalNames ==
  call.op = "get_environ_vars" =>
    /\ Len(call.val) = 11
    /\ {call.val[i][1] : i \in 1..Len(call.val)} = {CanonicalNames[i][2] : i \in 1..11}
    /\ \A i \in 1..Len(call.val) :
         \A c \in Range(call.val[i][1]) : c # "_" /\ c \notin Range(UPPERCASE)
    /\ \A i \in 1..11 :
         dict_get(call.val, CanonicalNames[i][2]) =
           IF dict_has(os_environ, CanonicalNames[i][1])
             THEN dict_get(os_environ, CanonicalNames[i][1])
             ELSE dict_get(DEFAULT_ENV_VARIABLES, CanonicalNames[i][1])

\* get_environ_vars was called with the project set and the others unset,
\* among them three whose defaults are not empty.
C22_Witness ==
  /\ call.op = "get_environ_vars"
  /\ Len(os_environ) = 1
  /\ dict_has(os_environ, ENV_SINGLESTOREDB_PROJECT)
  /\ dict_get(call.val, PROJECT) = dict_get(os_environ, ENV_SINGLESTOREDB_PROJECT)
  /\ dict_get(call.val, APP_TYPE) = <<"A","G","E","N","T">>


\* C23: form_otel_collector_endpoint raises ValueError for the project id
\* None and for the empty string; for every other project id P it returns
\* 'http://otel-collector-' + P + '.observability.svc.cluster.local:4317',
\* the template with the placeholder substituted exactly once.
C23_EndpointOfProject ==
  call.op = "form_otel_collector_endpoint" =>
    IF call.project_id = None \/ call.project_id = <<>>
      THEN call.val.exc = "ValueError"
      ELSE /\ call.val.exc = ""
           /\ call.val.val = <<"h","t","t","p",":","/","/","o","t","e","l","-","c","o","l","l","e","c","t","o","r","-">> \o call.project_id \o <<".","o","b","s","e","r","v","a","b","i","l","i","t","y",".","s","v","c",".","c","l","u","s","t","e","r",".","l","o","c","a","l",":","4","3","1","7">>

\* The endpoint was formed for a project id that is itself the text of the
\* placeholder.
C23_Witness ==
  /\ call.op = "form_otel_collector_endpoint"
  /\ call.project_id = <<"{","P","R","O","J","E","C","T","I","D","_","P","L","A","C","E","H","O","L","D","E","R","}">>
  /\ call.val.exc = ""


\* The host that get_internal_collector_endpoint was called on ("" when the
\* variable is unset), its labels, and whether it is a gateway host
ForwardedHost == os_getenv(os_environ, ENV_HTTP_FORWARDEDHOST, <<>>)
HostLabels == str_split(ForwardedHost, <<".">>)
IsGatewayHost ==
  /\ Len(HostLabels) > 1
  /\ HostLabels[1] \in {<<"n","o","v","a","-","g","a","t","e","w","a","y">>, <<"n","o","v","a","-","g","a","t","e","w","a","y","-","s","t","g">>}

\* C24: for every HTTP_FORWARDEDHOST of the form 'nova-gateway.<cell>.<rest>'
\* or 'nova-gateway-stg.<cell>.<rest>', get_internal_collector_endpoint
\* returns 'http://otel-collector-pulse-internal-<cell>.observability.svc.
\* cluster.local:4317', <cell> being the second label of the host.
C24_InternalEndpointOfCell ==
  call.op = "get_internal_collector_endpoint" /\ Len(HostLabels) > 2
    /\ HostLabels[1] \in {<<"n","o","v","a","-","g","a","t","e","w","a","y">>, <<"n","o","v","a","-","g","a","t","e","w","a","y","-","s","t","g">>} =>
      /\ call.val.exc = ""
      /\ call.val.val = <<"h","t","t","p",":","/","/","o","t","e","l","-","c","o","l","l","e","c","t","o","r","-","p","u","l","s","e","-","i","n","t","e","r","n","a","l","-">> \o HostLabels[2] \o <<".","o","b","s","e","r","v","a","b","i","l","i","t","y",".","s","v","c",".","c","l","u","s","t","e","r",".","l","o","c","a","l",":","4","3","1","7">>

\* C25: get_internal_collector_endpoint raises ValueError mentioning
\* 'HTTP_FORWARDEDHOST is required' when the variable is unset or empty, and
\* ValueError mentioning 'Unable to extract nova cell' for every host whose
\* first label is neither 'nova-gateway' nor 'nova-gateway-stg' or that has
\* no second label; it returns an endpoint in no other case.
C25_RaisesUnlessGatewayHost ==
  call.op = "get_internal_collector_endpoint" =>
    IF ForwardedHost = <<>>
      THEN call.val.exc = "ValueError" /\ call.val.msg = "HTTP_FORWARDEDHOST is required"
    ELSE IF ~IsGatewayHost
      THEN call.val.exc = "ValueError" /\ call.val.msg = "Unable to extract nova cell"
    ELSE call.val.exc = ""

\* The function was called on a host whose first label only begins with
\* 'nova-gateway', and raised.
C25_Witness ==
  /\ call.op = "get_internal_collector_endpoint"
  /\ HostLabels[1] = <<"n","o","v","a","-","g","a","t","e","w","a","y","-","p","r","o","d">>
  /\ Len(HostLabels) = 3
  /\ call.val.exc = "ValueError"


\* The key that format_env_variables makes of an input key: the replacement
\* of the first table entry whose match string occurs in the key, or the key
\* itself (Renamed), then in lower case with '.' for '_' (Converted)
Renamed(key) ==
  LET hits == {i \in 1..Len(ENV_VARIABLES_MAPPING) :
                 str_contains(key, ENV_VARIABLES_MAPPING[i][1])}
  IN  IF hits = {} THEN key ELSE ENV_VARIABLES_MAPPING[Nth(hits, 1)][2]
Converted(key) ==
  [i \in 1..Len(key) |-> IF key[i] = "_" THEN "." ELSE str_lower(<<key[i]>>)[1]]

\* The greatest member of a set of numbers that is not empty
Greatest(S) == CHOOSE x \in S : \A y \in S : y <= x

\* The keys of the result are the converted renamed input keys, each once.
KeysFormatted ==
  /\ {call.val[i][1] : i \in 1..Len(call.val)} =
       {Converted(Renamed(call.env_variables[i][1])) : i \in 1..Len(call.env_variables)}
  /\ \A i, j \in 1..Len(call.val) : call.val[i][1] = call.val[j][1] => i = j

\* C28 (as stated): format_env_variables renames each key by the first
\* matching table entry, converts it, keeps the values, and when two input
\* keys produce the same output key the one later in input order supplies
\* the value.
C28_LaterInputSuppliesValue ==
  call.op = "format_env_variables" =>
    /\ KeysFormatted
    /\ \A i \in 1..Len(call.val) :
         call.val[i][2] =
           call.env_variables[
             Greatest({j \in 1..Len(call.env_variables) :
                         Converted(Renamed(call.env_variables[j][1])) = call.val[i][1]})][2]

\* C28 (amended): format_env_variables renames each key by the first
\* matching table entry, converts it and keeps the values.  Input keys with
\* the same renamed key form one group, which stands where its first key
\* stood and carries the value of its last key; when several groups convert
\* to the same output key, the group standing last supplies the value.
C28_LastGroupSuppliesValue ==
  call.op = "format_env_variables" =>
    /\ KeysFormatted
    /\ \A i \in 1..Len(call.val) :
         LET inputs == 1..Len(call.env_variables)
             group(j) == {k \in inputs : Renamed(call.env_variables[k][1])
                                           = Renamed(call.env_variables[j][1])}
             final == CHOOSE j \in inputs :
                        /\ Converted(Renamed(call.env_variables[j][1])) = call.val[i][1]
                        /\ \A k \in inputs :
                             Converted(Renamed(call.env_variables[k][1])) = call.val[i][1]
                               => Nth(group(k), 1) <= Nth(group(j), 1)
         IN  call.val[i][2] = call.env_variables[Greatest(group(final))][2]

\* HOSTNAME, singlestore_hostname and MY_HOSTNAME were formatted in this
\* order: one output key, holding the value of the second input.
C28_Witness ==
  /\ call.op = "format_env_variables"
  /\ Len(call.env_variables) = 3
  /\ call.env_variables[1][1] = ENV_HOSTNAME
  /\ call.env_variables[2][1] = <<"s","i","n","g","l","e","s","t","o","r","e","_","h","o","s","t","n","a","m","e">>
  /\ call.env_variables[3][1] = <<"M","Y","_","H","O","S","T","N","A","M","E">>
  /\ call.val = << <<HOSTNAME, <<"2">>>> >>


\* ------------------------------------------------------------------------
\* More properties of Pulse.__init__ (PulseSpec)
\* ------------------------------------------------------------------------
\* A step in which a construction catches an exception of its configuration
\* path, and a step in which a construction finds an instance registered
FailedInitStep ==
  /\ Len(heap') = Len(heap) + 1
  /\ last'.op = "init"
  /\ last'.logged # ""
LaterConstructionStep ==
  /\ Len(heap') = Len(heap) + 1
  /\ _pulse_instance # 0

\* A later construction skips the initialization: it calls no collaborator,
\* configures no exporter and leaves the registered instance as it is.
InitSkipped ==
  /\ _pulse_instance' = _pulse_instance
  /\ last'.op = "reuse"
  /\ last'.effects = <<>>
  /\ last'.span_exporter = "none"
  /\ last'.log_exporters = {}

\* C29 (as stated): when the first construction hits an exception in its
\* configuration path, _pulse_instance is still set to that instance, every
\* later construction skips the initialization, and no exporter is ever
\* configured.
C29_FailedInitNoExporterEver ==
  [][/\ FailedInitStep =>
          /\ _pulse_instance' = last'.self
          /\ last'.span_exporter = "none"
          /\ last'.log_exporters = {}
     /\ LaterConstructionStep => InitSkipped]_vars

\* C29 (amended): when the first construction hits an exception in its
\* configuration path, _pulse_instance is still set to that instance and
\* every later construction, whatever its arguments, skips the
\* initialization and configures no exporter; what the failed construction
\* had configured before the exception stays as it is.
C29_FailedInitIsPermanent ==
  [][/\ FailedInitStep => _pulse_instance' = last'.self
     /\ LaterConstructionStep => InitSkipped]_vars

\* Two constructions were skipped after a first one that failed before it
\* had set self.config.
C29_Witness ==
  /\ last.op = "reuse"
  /\ Len(heap) = 3
  /\ heap[1] = <<>>
  /\ _pulse_instance = 1

\* ------------------------------------------------------------------------
\* The override after a decorated call (DecoratorSpec)
\* ------------------------------------------------------------------------
\* A call of the wrapper the decorated name is bound to.
WrapperCallStep ==
  /\ IsWrapper(binding.value)
  /\ binding' = binding
  /\ call'.op = "call"

\* The context a pulse_agent-wrapped function's body has after the
\* pulse_tool-wrapped function it called has returned or raised.
InsideAgent(agent_flag, tool_flag, args) ==
  tool_wrapper(EnableStep(SessionStep(Run(context, association_properties), <<>>),
                          agent_flag),
               pulse_tool_decorator(PyNone, tool_flag, UserFunction),
               args, <<>>).context

\* C30: the override a decorated call sets is never restored: after a
\* pulse_tool or pulse_agent call has returned or raised, the caller's
\* context holds that call's enable_content_tracing value whatever it held
\* before, and a tool with enable_content_tracing=False called inside an
\* agent with True leaves the agent's body with the override False.
C30_OverrideNeverRestored ==
  [][/\ WrapperCallStep =>
          /\ dict_has(context', "override_enable_content_tracing")
          /\ dict_get(context', "override_enable_content_tracing")
               = binding.enable_content_tracing
     /\ \A agent_flag, tool_flag \in BOOLEAN, args \in CallArgs :
          dict_get(InsideAgent(agent_flag, tool_flag, args),
                   "override_enable_content_tracing") = tool_flag]_vars

\* A tool with enable_content_tracing=False has been called, and has raised,
\* in a context whose override had been set before the call; the override is
\* False after it.
C30_Witness ==
  /\ call.op = "call"
  /\ binding.decorator = "pulse_tool"
  /\ ~binding.enable_content_tracing
  /\ call.exc = "RuntimeError"
  /\ context = << <<"override_enable_content_tracing", FALSE>> >>
  /\ InsideAgent(TRUE, FALSE, <<>>) = context

\* ------------------------------------------------------------------------
\* Construction from two threads (RaceSpec)
\* ------------------------------------------------------------------------
\* Thread t takes the step that moves it from one place to the next.
Moves(t, from, to) == threads[t].pc = from /\ threads'[t].pc = to

\* The collaborators a thread's try block has called.
SideEffects(t) == threads[t].fr.effects

\* C26: first-time construction from two threads is a race: the test of
\* line 102 looks at _pulse_instance alone, so a thread passes it whenever
\* _pulse_instance is None, also while the other thread is in its try block
\* or about to assign; each thread that passed runs the initialization
\* against the environment as it then is; and each assignment overwrites
\* _pulse_instance, which therefore ends as the instance of the thread that
\* assigned last.
C26_ConstructionRace ==
  [][\A t \in Threads :
       /\ (threads[t].pc = "start" /\ threads'[t].pc # "start") =>
            (Moves(t, "start", "try") <=> _pulse_instance = 0)
       /\ Moves(t, "try", "assign") =>
            /\ threads'[t].fr = FirstInit(os_environ, get_environ_vars(os_environ),
                                          builtins, fs_dirs, threads[t].args,
                                          threads[t].fail)
            /\ os_environ' = threads'[t].fr.environ
       /\ Moves(t, "assign", "done") => _pulse_instance' = threads[t].self]_vars

\* Both threads have passed the test, both have initialized up to
\* Traceloop.init, and the thread that made its object first has assigned
\* last.
C26_Witness ==
  /\ \A t \in Threads : /\ threads[t].pc = "done"
                         /\ threads[t].fr.path # 0
                         /\ "Traceloop.init" \in Range(SideEffects(t))
  /\ threads[1].self = 1
  /\ threads[2].self = 2
  /\ _pulse_instance = 1

\* ------------------------------------------------------------------------
\* The content-tracing toggle across threads (ThreadsSpec)
\* ------------------------------------------------------------------------
\* C27: the toggle is process-wide: the instrumentation of a decorated call
\* observes the value the latest Pulse.enable_content_tracing call in the
\* process has set, whichever thread made that call.
C27_TogglesAreProcessWide ==
  [][\A t \in Threads :
       Moves(t, "enabled", "idle") => threads'[t].observed = call.args[1]]_vars

====
